---- MODULE Spec2Model ----
(***************************************************************************)
(* Model of the GST reconciliation engine: the reconcilers and the cycle   *)
(* detector of cross_check.py and the cross-document pass of verifier.py.  *)
(*                                                                         *)
(* Data representation.  A cell of a DataFrame is a tagged value:          *)
(*   NaN            the missing marker (None / numpy.nan)                  *)
(*   Str(s)         a Python str, s a tuple of one-character strings       *)
(*   Num(n)         a number, n an integer count of hundredths (0.01)      *)
(* A DataFrame is the sequence of its rows, a row a function from column   *)
(* names to cells.  Amounts are exact: float rounding is not modelled.     *)
(***************************************************************************)
EXTENDS Integers, Sequences, FiniteSets, TLC

VARIABLES all_data, report, args, merged_df, result, pc

vars == <<all_data, report, args, merged_df, result, pc>>

-----------------------------------------------------------------------------
(* Bounds of the model *)

MaxRows == 2

-----------------------------------------------------------------------------
(* Cells and strings *)

NaN == [nan |-> TRUE]

Str(s) == [str |-> s]

Num(n) == [num |-> n]

IsStr(v) == "str" \in DOMAIN v

IsNum(v) == "num" \in DOMAIN v

\* pd.isna on a scalar cell
isna(v) == v = NaN

UpperAlpha ==
  <<"A","B","C","D","E","F","G","H","I","J","K","L","M",
    "N","O","P","Q","R","S","T","U","V","W","X","Y","Z">>

LowerAlpha ==
  <<"a","b","c","d","e","f","g","h","i","j","k","l","m",
    "n","o","p","q","r","s","t","u","v","w","x","y","z">>

Digits == {"0","1","2","3","4","5","6","7","8","9"}

UpperSet == {UpperAlpha[i] : i \in DOMAIN UpperAlpha}

LowerChar(c) ==
  IF c \in UpperSet
    THEN LowerAlpha[CHOOSE i \in DOMAIN UpperAlpha : UpperAlpha[i] = c]
    ELSE c

\* str.lower()
lower(s) == [i \in DOMAIN s |-> LowerChar(s[i])]

DigitVal(c) ==
  CASE c = "0" -> 0 [] c = "1" -> 1 [] c = "2" -> 2 [] c = "3" -> 3
    [] c = "4" -> 4 [] c = "5" -> 5 [] c = "6" -> 6 [] c = "7" -> 7
    [] c = "8" -> 8 [] c = "9" -> 9

\* Series.astype(str) on one cell of an object column of str / NaN
astype_str(v) == IF isna(v) THEN <<"n","a","n">> ELSE v.str

RECURSIVE ParseNat(_)
ParseNat(s) ==
  IF s = <<>> THEN 0
  ELSE 10 * ParseNat(SubSeq(s, 1, Len(s) - 1)) + DigitVal(s[Len(s)])

AllDigits(s) == s # <<>> /\ \A i \in DOMAIN s : s[i] \in Digits

\* pd.to_numeric(errors="coerce") on one cell: numbers pass, a string of
\* digits parses to that many whole units, anything else becomes NaN
to_numeric(v) ==
  IF IsNum(v) THEN v
  ELSE IF IsStr(v) /\ AllDigits(v.str) THEN Num(100 * ParseNat(v.str))
  ELSE NaN

Abs(n) == IF n < 0 THEN -n ELSE n

Min(a, b) == IF a <= b THEN a ELSE b

DigitChar(d) ==
  CASE d = 0 -> "0" [] d = 1 -> "1" [] d = 2 -> "2" [] d = 3 -> "3" [] d = 4 -> "4"
    [] d = 5 -> "5" [] d = 6 -> "6" [] d = 7 -> "7" [] d = 8 -> "8" [] d = 9 -> "9"

RECURSIVE FormatNat(_)
\* str(n) of a natural number
FormatNat(n) == IF n < 10 THEN <<DigitChar(n)>> ELSE FormatNat(n \div 10) \o <<DigitChar(n % 10)>>

\* str(x) of the float of n hundredths: "1.0", "1.5", "1.01", "-0.25"
FormatFloat(n) ==
  LET a == Abs(n)
      frac == IF a % 100 = 0 THEN <<"0">>
              ELSE IF a % 10 = 0 THEN <<DigitChar((a % 100) \div 10)>>
              ELSE <<DigitChar((a % 100) \div 10), DigitChar(a % 10)>>
  IN  (IF n < 0 THEN <<"-">> ELSE <<>>) \o FormatNat(a \div 100) \o <<".">> \o frac

\* str(v) of a cell that is not missing
py_str(v) == IF IsStr(v) THEN v.str ELSE FormatFloat(v.num)

-----------------------------------------------------------------------------
(* Field validators *)

AlnumNoZero == (Digits \ {"0"}) \cup UpperSet

Alnum == Digits \cup UpperSet

\* the 15 positions of ^[0-9]{2}[A-Z]{5}[0-9]{4}[A-Z]{1}[1-9A-Z]{1}Z[0-9A-Z]{1}$
GstinClass(i) ==
  IF i <= 2 THEN Digits
  ELSE IF i <= 7 THEN UpperSet
  ELSE IF i <= 11 THEN Digits
  ELSE IF i = 12 THEN UpperSet
  ELSE IF i = 13 THEN AlnumNoZero
  ELSE IF i = 14 THEN {"Z"}
  ELSE Alnum

\* re.match(pattern, s): the 15 positions match and the string ends there,
\* or ends there with one trailing newline ($ also matches before it)
GstinPatternMatches(s) ==
  /\ Len(s) = 15 \/ (Len(s) = 16 /\ s[16] = "\n")
  /\ \A i \in 1..15 : s[i] \in GstinClass(i)

validate_gstin(gstin) ==
  IF ~IsStr(gstin) THEN FALSE ELSE GstinPatternMatches(gstin.str)

\* a comparison that never folds case
safe_string_comparison_exact(str1, str2, ignore_case) ==
  IF isna(str1) /\ isna(str2) THEN TRUE
  ELSE IF isna(str1) \/ isna(str2) THEN FALSE
  ELSE py_str(str1) = py_str(str2)

safe_string_comparison(str1, str2, ignore_case) ==
  IF isna(str1) /\ isna(str2) THEN TRUE
  ELSE IF isna(str1) \/ isna(str2) THEN FALSE
  ELSE IF ignore_case THEN lower(py_str(str1)) = lower(py_str(str2))
  ELSE py_str(str1) = py_str(str2)

-----------------------------------------------------------------------------
(* DataFrames *)

\* A DataFrame: its column names and its rows in index order
DF(cols, rows) == [columns |-> cols, rows |-> rows]

EmptyDF == DF({}, <<>>)

\* What a call gives back: a DataFrame, or the exception it raised
Ok(rows) == [ok |-> TRUE, ran |-> TRUE, df |-> rows]

Raise(e) == [ok |-> FALSE, ran |-> TRUE, exc |-> e]

\* a pair check that was skipped because its data is not loaded
Skipped == [ok |-> TRUE, ran |-> FALSE, df |-> <<>>]

\* row with column c set to v
With(row, c, v) ==
  [k \in DOMAIN row \cup {c} |-> IF k = c THEN v ELSE row[k]]

RECURSIVE Flatten(_)
Flatten(ss) == IF ss = <<>> THEN <<>> ELSE Head(ss) \o Flatten(Tail(ss))

\* pd.merge matches rows whose key cells are equal; a missing key (NaN)
\* equals another missing key there
KeyEq(a, b) == a = b

\* the index pairs <<i, j>> of pd.merge(how="inner") on one key column each,
\* in the order of the left rows
InnerPairs(L, R, lkey, rkey) ==
  Flatten([i \in DOMAIN L |->
    SelectSeq([j \in DOMAIN R |-> <<i, j>>],
              LAMBDA p : KeyEq(L[p[1]][lkey], R[p[2]][rkey]))])

\* the columns of both rows in one row (column names disjoint, or equal
\* cells under the shared name)
JoinRow(l, r) ==
  [c \in DOMAIN l \cup DOMAIN r |-> IF c \in DOMAIN l THEN l[c] ELSE r[c]]

\* x + "_Lower" for the column names in use
LowerCol(c) ==
  CASE c = "Invoice Number" -> "Invoice Number_Lower"
    [] c = "invoice_number" -> "invoice_number_Lower"
    [] c = "Export Invoice Number" -> "Export Invoice Number_Lower"

-----------------------------------------------------------------------------
(* Numeric closeness *)

\* numpy.isclose defaults rtol=1e-05, atol=1e-08; rtol is counted in units
\* of 1e-05 and atol in units of 1e-08
NumpyRtol == 1

NumpyAtol == 1

\* tolerance_rel=0.01 and tolerance_abs=0.01 of cross_check_gstr3b_generaldata
tolerance_rel == 1000

tolerance_abs == 1000000

\* np.isclose(a, b, rtol, atol) on numbers of hundredths:
\*   |a - b| <= atol + rtol * |b|, scaled by 1e8
isclose_num(a, b, rtol, atol) ==
  LET bound == atol + rtol * Abs(b) * 10
  IN  \* a difference beyond the bound by a whole hundredth is not multiplied out
      IF Abs(a - b) > bound \div 1000000 + 1 THEN FALSE
      ELSE Abs(a - b) * 1000000 <= bound

\* np.isclose on two float cells; NaN is close to nothing (equal_nan=False)
isclose(a, b, rtol, atol) ==
  IF isna(a) \/ isna(b) THEN FALSE ELSE isclose_num(a.num, b.num, rtol, atol)

RECURSIVE SumCol(_, _)
\* Series.sum() of a float column: NaN cells are skipped
SumCol(rows, c) ==
  IF rows = <<>> THEN 0
  ELSE (IF isna(Head(rows)[c]) THEN 0 ELSE Head(rows)[c].num) + SumCol(Tail(rows), c)

-----------------------------------------------------------------------------
(* cross_check_gstr2b_annexureb *)

ItcTrueStrings == {<<"y","e","s">>, <<"t","r","u","e">>, <<"1">>}

\* .astype(str).str.lower().map({"yes": True, "true": True, "1": True}).fillna(False)
ItcAvailableBool(v) == lower(astype_str(v)) \in ItcTrueStrings

\* the merge of cross_check_gstr2b_annexureb: Annexure B rows against the
\* GSTR-2B rows with ITC available, on the lower-cased invoice numbers
AnnexbMerged(gstr2b_df, annexureb_df, inv_num_col, itc_available_col, export_inv_num_col) ==
  LET g2 == [i \in DOMAIN gstr2b_df.rows |->
               With(With(gstr2b_df.rows[i], "ITC Available Bool",
                         ItcAvailableBool(gstr2b_df.rows[i][itc_available_col])),
                    LowerCol(inv_num_col),
                    Str(lower(astype_str(gstr2b_df.rows[i][inv_num_col]))))]
      ab == [i \in DOMAIN annexureb_df.rows |->
               With(annexureb_df.rows[i], "Export Invoice Number Lower",
                    Str(lower(astype_str(annexureb_df.rows[i][export_inv_num_col]))))]
      right == SelectSeq(g2, LAMBDA r : r["ITC Available Bool"])
      pairs == InnerPairs(ab, right, "Export Invoice Number Lower", LowerCol(inv_num_col))
  IN  [k \in DOMAIN pairs |->
         With(JoinRow(ab[pairs[k][1]], right[pairs[k][2]]), "index", k - 1)]

\* merged_df.loc[~merged_df["ITC Available Bool"], 'discrepancy'] += "..."
AnnexbDiscrepancy(row) ==
  IF ~row["ITC Available Bool"]
    THEN <<"Export Invoice found in GSTR-2B with ITC claimed">>
    ELSE <<>>

cross_check_gstr2b_annexureb(gstr2b_df, annexureb_df, inv_num_col, itc_available_col, export_inv_num_col) ==
  IF itc_available_col \notin gstr2b_df.columns \/ inv_num_col \notin gstr2b_df.columns
       \/ export_inv_num_col \notin annexureb_df.columns
    THEN Raise("KeyError")
  ELSE
    LET merged == AnnexbMerged(gstr2b_df, annexureb_df, inv_num_col,
                               itc_available_col, export_inv_num_col)
        flagged == [k \in DOMAIN merged |->
                      With(merged[k], "discrepancy", AnnexbDiscrepancy(merged[k]))]
    IN  Ok(SelectSeq(flagged, LAMBDA r : r["discrepancy"] # <<>>))

-----------------------------------------------------------------------------
(* cross_check_gstr3b_generaldata *)

\* the verdict of the np.isclose call: general-data sum against GSTR-3B sum
Gstr3bGenIsClose(total_taxable_value_gen, total_taxable_value_3b) ==
  isclose_num(total_taxable_value_gen, total_taxable_value_3b, tolerance_rel, tolerance_abs)

cross_check_gstr3b_generaldata(gstr3b_df, gstgen_df, total_taxable_value_col, total_amount_col) ==
  IF total_amount_col \notin gstgen_df.columns \/ total_taxable_value_col \notin gstr3b_df.columns
    THEN Raise("KeyError")
  ELSE
    LET gen == [i \in DOMAIN gstgen_df.rows |->
                  With(gstgen_df.rows[i], total_amount_col,
                       to_numeric(gstgen_df.rows[i][total_amount_col]))]
        g3b == [i \in DOMAIN gstr3b_df.rows |->
                  With(gstr3b_df.rows[i], total_taxable_value_col,
                       to_numeric(gstr3b_df.rows[i][total_taxable_value_col]))]
        total_taxable_value_gen == SumCol(gen, total_amount_col)
        total_taxable_value_3b == SumCol(g3b, total_taxable_value_col)
        is_close == Gstr3bGenIsClose(total_taxable_value_gen, total_taxable_value_3b)
    IN  IF is_close THEN Ok(<<>>)
        ELSE Ok(<<[index |-> 0,
                   total_taxable_value_gen |-> total_taxable_value_gen,
                   total_taxable_value_3b |-> total_taxable_value_3b,
                   is_close |-> is_close,
                   discrepancy |-> <<"Significant Mismatch">>]>>)

-----------------------------------------------------------------------------
(* cross_check_ewaybill_generaldata *)

\* tolerance_abs = 0.01 of cross_check_ewaybill_generaldata, in units of 1e-08
eway_tolerance_abs == 1000000

\* DataFrame.dropna(): the rows with no missing cell
dropna(rows) == SelectSeq(rows, LAMBDA r : \A c \in DOMAIN r : ~isna(r[c]))

\* a frame that keeps its repeated rows
keep_duplicates(rows, c) == rows

\* DataFrame.drop_duplicates(subset=[c]): the first row of every value of c
drop_duplicates(rows, c) ==
  LET first(i) == \A j \in 1..(i - 1) : rows[j][c] # rows[i][c]
      kept == SelectSeq([i \in DOMAIN rows |-> i], first)
  IN  [k \in DOMAIN kept |-> rows[kept[k]]]

\* df[[lower_col, value_col]] after the lower-casing and pd.to_numeric
EwayCompare(rows, inv_col, val_col) ==
  [i \in DOMAIN rows |->
     [c \in {LowerCol(inv_col), val_col} |->
        IF c = val_col THEN to_numeric(rows[i][val_col])
        ELSE Str(lower(astype_str(rows[i][inv_col])))]]

\* ~np.isclose(eway total, general total, atol=tolerance_abs)
EwayMismatch(eway_total, gen_total) ==
  ~isclose(eway_total, gen_total, NumpyRtol, eway_tolerance_abs)

cross_check_ewaybill_generaldata(ewaybill_df, gstgen_df, eway_inv_num_col, eway_total_val_col, inv_num_col, total_amount_col) ==
  IF {eway_inv_num_col, eway_total_val_col} \ ewaybill_df.columns # {}
       \/ {inv_num_col, total_amount_col} \ gstgen_df.columns # {}
    THEN Raise("KeyError")
  ELSE
    LET ewaybill_compare ==
          drop_duplicates(dropna(EwayCompare(ewaybill_df.rows, eway_inv_num_col, eway_total_val_col)),
                          LowerCol(eway_inv_num_col))
        gstgen_compare ==
          drop_duplicates(dropna(EwayCompare(gstgen_df.rows, inv_num_col, total_amount_col)),
                          LowerCol(inv_num_col))
        pairs == InnerPairs(ewaybill_compare, gstgen_compare,
                            LowerCol(eway_inv_num_col), LowerCol(inv_num_col))
        merged_inv_val ==
          [k \in DOMAIN pairs |->
             With(JoinRow(ewaybill_compare[pairs[k][1]], gstgen_compare[pairs[k][2]]),
                  "index", k - 1)]
        flagged ==
          [k \in DOMAIN merged_inv_val |->
             With(merged_inv_val[k], "discrepancy",
                  IF EwayMismatch(merged_inv_val[k][eway_total_val_col],
                                  merged_inv_val[k][total_amount_col])
                    THEN <<"Total value mismatch between E-way Bill and General Invoice">>
                    ELSE <<>>)]
    IN  Ok(SelectSeq(flagged, LAMBDA r : r["discrepancy"] # <<>>))

-----------------------------------------------------------------------------
(* GSTVerifier.check_cross_document_consistency *)

\* the column names read from an empty config (self.config = {})
inv_num_col == "Invoice Number"

tot_amt_col == "Total Amount"

itc_available_col == "ITC Available"

export_inv_num_col == "Export Invoice Number"

eway_inv_num_col == "Invoice Number"

eway_total_val_col == "Total Value"

total_taxable_value_col == "Total Taxable Value"

Has(k) == k \in DOMAIN all_data

\* Check 1: GSTR-2B vs Annexure B
Check1 ==
  IF Has("gstr2b_data") /\ Has("annexureb_data")
    THEN cross_check_gstr2b_annexureb(all_data["gstr2b_data"], all_data["annexureb_data"],
                                      inv_num_col, itc_available_col, export_inv_num_col)
    ELSE Skipped

Check1Errors(rows) ==
  [k \in DOMAIN rows |->
     [documents |-> "gstr2b_data, annexureb_data",
      values |-> <<rows[k]["Export Invoice Number"], rows[k]["ITC Available"]>>,
      description |-> "Export Invoice found in GSTR-2B with ITC Available claimed.",
      row_annexb |-> rows[k]["index"] + 2]]

\* Check 2: GSTR-3B vs General Data
Check2 ==
  IF Has("gstr3b_data") /\ Has("gst_gen_data")
    THEN cross_check_gstr3b_generaldata(all_data["gstr3b_data"], all_data["gst_gen_data"],
                                        total_taxable_value_col, tot_amt_col)
    ELSE Skipped

Check2Errors(rows) ==
  [k \in DOMAIN rows |->
     [documents |-> "gstr3b_data, gst_gen_data",
      values |-> <<rows[k]["total_taxable_value_3b"], rows[k]["total_taxable_value_gen"]>>,
      description |-> rows[k]["discrepancy"]]]

\* Check 3: E-way Bill vs General Data
Check3 ==
  IF Has("ewaybill_data") /\ Has("gst_gen_data")
    THEN cross_check_ewaybill_generaldata(all_data["ewaybill_data"], all_data["gst_gen_data"],
                                          eway_inv_num_col, eway_total_val_col,
                                          inv_num_col, tot_amt_col)
    ELSE Skipped

Check3Errors(rows) ==
  [k \in DOMAIN rows |->
     [documents |-> "ewaybill_data, gst_gen_data",
      values |-> <<rows[k][eway_total_val_col], rows[k][tot_amt_col]>>,
      invoice_number |-> rows[k][LowerCol(eway_inv_num_col)],
      description |-> "Total value mismatch between E-way Bill and General Invoice for the same invoice number."]]

\* report with errs appended to the entry of key k
ExtendReport(rep, k, errs) ==
  [x \in DOMAIN rep \cup {k} |->
     IF x = k THEN (IF k \in DOMAIN rep THEN rep[k] ELSE <<>>) \o errs ELSE rep[x]]

\* report with the entry of key k set to errs
SetReport(rep, k, errs) ==
  [x \in DOMAIN rep \cup {k} |-> IF x = k THEN errs ELSE rep[x]]

\* the number of loaded datasets the cross-document pass can use; the menu
\* of run() offers the pass from two on
relevant_data_count ==
  Cardinality({"gstr2b_data", "annexureb_data", "gstr3b_data", "gst_gen_data",
               "ewaybill_data"} \cap DOMAIN all_data)

\* The three pair checks run in order, each appending its errors; an
\* exception raised by a pair check leaves the method at that point, and
\* run(), which catches nothing around the call, with it.
check_cross_document_consistency ==
  LET key == "cross_document_consistency"
      r1 == Check1
      e1 == IF r1.ok THEN Check1Errors(r1.df) ELSE <<>>
      r2 == Check2
      e2 == IF r2.ok THEN Check2Errors(r2.df) ELSE <<>>
      r3 == Check3
      e3 == IF r3.ok THEN Check3Errors(r3.df) ELSE <<>>
  IN  /\ pc = "menu"
      /\ relevant_data_count >= 2
      /\ IF DOMAIN all_data = {}
           THEN /\ report' = SetReport(report, key, <<>>)
                /\ result' = <<>>
           ELSE IF ~r1.ok
             THEN /\ report' = SetReport(report, key, <<>>)
                  /\ result' = <<r1>>
           ELSE IF ~r2.ok
             THEN /\ report' = SetReport(report, key, e1)
                  /\ result' = <<r1, r2>>
           ELSE IF ~r3.ok
             THEN /\ report' = SetReport(report, key, e1 \o e2)
                  /\ result' = <<r1, r2, r3>>
           ELSE /\ report' = SetReport(report, key, e1 \o e2 \o e3)
                /\ result' = <<r1, r2, r3>>
      /\ pc' = IF r1.ok /\ r2.ok /\ r3.ok THEN "menu" ELSE "raised"
      /\ UNCHANGED <<all_data, args, merged_df>>

-----------------------------------------------------------------------------
(* The verifier session: load_all_data, then the menu loop of run() *)

\* all DataFrames of at most n rows over the row set S
Frames(cols, S, n) == {DF(cols, rows) : rows \in UNION {[1..m -> S] : m \in 0..n}}

\* self.all_data[data_type + "_data"] = data
LoadData(k, df) ==
  /\ pc = "loading"
  /\ k \notin DOMAIN all_data
  /\ all_data' = [x \in DOMAIN all_data \cup {k} |-> IF x = k THEN df ELSE all_data[x]]
  /\ UNCHANGED <<report, args, merged_df, result, pc>>

\* load_all_data returned True: run() enters its menu loop
EnterMenu ==
  /\ pc = "loading"
  /\ DOMAIN all_data # {}
  /\ pc' = "menu"
  /\ UNCHANGED <<all_data, report, args, merged_df, result>>

InitVerifier ==
  /\ all_data = <<>>
  /\ report = <<>>
  /\ args = <<>>
  /\ merged_df = <<>>
  /\ result = <<>>
  /\ pc = "loading"

\* invoice numbers of the loaded files: two spellings of one number and a
\* missing cell
InvNumbers == {Str(<<"A","1">>), Str(<<"a","1">>), NaN}

ItcValues == {Str(<<"Y","e","s">>), Str(<<"n","o">>)}

Gstr2bRows ==
  {[c \in {"Invoice Number", "ITC Available"} |->
      IF c = "Invoice Number" THEN inv ELSE itc] : inv \in InvNumbers, itc \in ItcValues}

AnnexbRows == {[c \in {"Export Invoice Number"} |-> inv] : inv \in InvNumbers}

Gstr2bFrames == Frames({"Invoice Number", "ITC Available"}, Gstr2bRows, MaxRows)

AnnexbFrames == Frames({"Export Invoice Number"}, AnnexbRows, MaxRows)

NextAnnexB ==
  \/ \E df \in Gstr2bFrames : LoadData("gstr2b_data", df)
  \/ \E df \in AnnexbFrames : LoadData("annexureb_data", df)
  \/ EnterMenu
  \/ check_cross_document_consistency

SpecAnnexB == InitVerifier /\ [][NextAnnexB]_vars

CrossErrors == report["cross_document_consistency"]

CrossChecked == pc = "menu" /\ "cross_document_consistency" \in DOMAIN report

\* C1: after the cross-document pass, every Annexure B row whose export
\* invoice number equals, ignoring case, the invoice number of a GSTR-2B row
\* with ITC available (yes / true / 1) has an error for that pairing in the
\* report.
C1_ForbiddenItcReported ==
  CrossChecked =>
    \A i \in DOMAIN all_data["annexureb_data"].rows,
       j \in DOMAIN all_data["gstr2b_data"].rows :
      LET a == all_data["annexureb_data"].rows[i]
          g == all_data["gstr2b_data"].rows[j]
      IN  ( /\ IsStr(a["Export Invoice Number"]) /\ IsStr(g["Invoice Number"])
            /\ lower(a["Export Invoice Number"].str) = lower(g["Invoice Number"].str)
            /\ ItcAvailableBool(g["ITC Available"]) )
          => \E e \in DOMAIN CrossErrors :
               /\ CrossErrors[e].documents = "gstr2b_data, annexureb_data"
               /\ CrossErrors[e].values = <<a["Export Invoice Number"], g["ITC Available"]>>

-----------------------------------------------------------------------------
(* GSTR-3B against the general data *)

\* amounts of the loaded files, in hundredths: 0.99 and 1.01, the digit
\* string "1", a string that is no number, and a missing cell
Amounts == {Num(99), Num(101), Str(<<"1">>), Str(<<"x">>), NaN}

Gstr3bRows == {[c \in {"Total Taxable Value"} |-> v] : v \in Amounts}

GenTotalRows == {[c \in {"Total Amount"} |-> v] : v \in Amounts}

Gstr3bFrames == Frames({"Total Taxable Value"}, Gstr3bRows, MaxRows)

GenTotalFrames == Frames({"Total Amount"}, GenTotalRows, MaxRows)

NextGstr3bGen ==
  \/ \E df \in Gstr3bFrames : LoadData("gstr3b_data", df)
  \/ \E df \in GenTotalFrames : LoadData("gst_gen_data", df)
  \/ EnterMenu
  \/ check_cross_document_consistency

SpecGstr3bGen == InitVerifier /\ [][NextGstr3bGen]_vars

\* the sum a loaded total column contributes to the comparison
LoadedSum(k, c) ==
  SumCol([i \in DOMAIN all_data[k].rows |->
            With(all_data[k].rows[i], c, to_numeric(all_data[k].rows[i][c]))], c)

\* a one-row frame holding the total n in column c
TotalFrame(c, n) == DF({c}, <<[x \in {c} |-> Num(n)]>>)

\* C5: the closeness verdict of cross_check_gstr3b_generaldata does not
\* change when the GSTR-3B total and the general-data total are exchanged:
\* the pass reports no mismatch for (x, y) exactly when the reconciler
\* returns empty for (y, x).
C5_ClosenessSymmetric ==
  CrossChecked =>
    LET x == LoadedSum("gstr3b_data", "Total Taxable Value")
        y == LoadedSum("gst_gen_data", "Total Amount")
        swapped == cross_check_gstr3b_generaldata(
                     TotalFrame("Total Taxable Value", y),
                     TotalFrame("Total Amount", x),
                     total_taxable_value_col, tot_amt_col)
    IN  (CrossErrors = <<>>) <=> (swapped.df = <<>>)

-----------------------------------------------------------------------------
(* cross_check_invoice_ewaybill *)

\* the inner merge on invoice_number, the clashing columns suffixed
InvoiceEwaybillMerged(invoice_df, ewaybill_df) ==
  LET pairs == InnerPairs(invoice_df.rows, ewaybill_df.rows, "invoice_number", "invoice_number")
  IN  [k \in DOMAIN pairs |->
        LET inv == invoice_df.rows[pairs[k][1]]
            ewb == ewaybill_df.rows[pairs[k][2]]
        IN  [index |-> k - 1,
             left |-> pairs[k][1],
             right |-> pairs[k][2],
             invoice_number |-> inv["invoice_number"],
             invoice_date_invoice |-> inv["invoice_date"],
             invoice_date_ewaybill |-> ewb["invoice_date"],
             gstin_supplier_invoice |-> inv["gstin_supplier"],
             gstin_supplier_ewaybill |-> ewb["gstin_supplier"],
             gstin_recipient_invoice |-> inv["gstin_recipient"],
             gstin_recipient_ewaybill |-> ewb["gstin_recipient"],
             invoice_value_invoice |-> inv["invoice_value"],
             invoice_value_ewaybill |-> ewb["invoice_value"],
             ewaybill_number |-> ewb["ewaybill_number"],
             gstin_supplier_valid_invoice |-> validate_gstin(inv["gstin_supplier"]),
             gstin_recipient_valid_invoice |-> validate_gstin(inv["gstin_recipient"]),
             gstin_supplier_valid_ewaybill |-> validate_gstin(ewb["gstin_supplier"]),
             gstin_recipient_valid_ewaybill |-> validate_gstin(ewb["gstin_recipient"])]]

\* one reason when the condition holds: the += of a masked .loc
Reason(cond, text) == IF cond THEN <<text>> ELSE <<>>

\* np.isclose(invoice_value_invoice, invoice_value_ewaybill)
InvoiceValueMatch(a, b) == isclose(a, b, NumpyRtol, NumpyAtol)

\* a discrepancy text in which a date mismatch suppresses every other reason
InvoiceEwaybillDiscrepancyShortCircuit(row) ==
  IF ~safe_string_comparison(row.invoice_date_invoice, row.invoice_date_ewaybill, TRUE)
    THEN <<"Invoice Date Mismatch">>
    ELSE
      Reason(~safe_string_comparison(row.gstin_supplier_invoice, row.gstin_supplier_ewaybill, TRUE),
             "Supplier GSTIN Mismatch")
      \o Reason(~safe_string_comparison(row.gstin_recipient_invoice, row.gstin_recipient_ewaybill, TRUE),
                "Recipient GSTIN Mismatch")
      \o Reason(~isclose(row.invoice_value_invoice, row.invoice_value_ewaybill, NumpyRtol, NumpyAtol),
                "Invoice Value Mismatch")
      \o Reason(~row.gstin_supplier_valid_invoice, "Invalid Supplier GSTIN in Invoice")
      \o Reason(~row.gstin_recipient_valid_invoice, "Invalid Recipient GSTIN in Invoice")
      \o Reason(~row.gstin_supplier_valid_ewaybill, "Invalid Supplier GSTIN in Ewaybill")
      \o Reason(~row.gstin_recipient_valid_ewaybill, "Invalid Recipient GSTIN in Ewaybill")

\* the discrepancy text of one merged row, reason by reason
InvoiceEwaybillDiscrepancy(row) ==
  Reason(~safe_string_comparison(row.invoice_date_invoice, row.invoice_date_ewaybill, TRUE),
         "Invoice Date Mismatch")
  \o Reason(~safe_string_comparison(row.gstin_supplier_invoice, row.gstin_supplier_ewaybill, TRUE),
            "Supplier GSTIN Mismatch")
  \o Reason(~safe_string_comparison(row.gstin_recipient_invoice, row.gstin_recipient_ewaybill, TRUE),
            "Recipient GSTIN Mismatch")
  \o Reason(~InvoiceValueMatch(row.invoice_value_invoice, row.invoice_value_ewaybill),
            "Invoice Value Mismatch")
  \o Reason(~row.gstin_supplier_valid_invoice, "Invalid Supplier GSTIN in Invoice")
  \o Reason(~row.gstin_recipient_valid_invoice, "Invalid Recipient GSTIN in Invoice")
  \o Reason(~row.gstin_supplier_valid_ewaybill, "Invalid Supplier GSTIN in Ewaybill")
  \o Reason(~row.gstin_recipient_valid_ewaybill, "Invalid Recipient GSTIN in Ewaybill")

\* a column holding a str cell has dtype object: np.isclose raises on it
HasStrCell(df, c) == \E i \in DOMAIN df.rows : IsStr(df.rows[i][c])

InvoiceColumns == {"invoice_number", "invoice_date", "gstin_supplier", "gstin_recipient",
                   "invoice_value"}

EwaybillColumns == InvoiceColumns \cup {"ewaybill_number"}

\* What the source leaves to the pandas of the build.
\* empty_frame: DataFrame.apply(f, axis=1) on a frame of no rows returns an
\*   empty Series, and the column assignment passes ("passes"), or returns the
\*   empty frame itself, and assigning it to one column raises ValueError
\*   ("raises").
\* invert: a column created by `df.loc[mask, column] = values` has dtype object
\*   and holds Python bools where the mask is set (flag is that bool);
\*   "logical": ~ negates each cell, `mask & ~column` selects the row when
\*              flag is False;
\*   "bitwise": ~ gives the integers -2 and -1, both truthy once cast to bool
\*              for the &, and the row is selected whatever flag is.
PandasBuilds ==
  [invert : {"logical", "bitwise"}, empty_frame : {"passes", "raises"}]

cross_check_invoice_ewaybill(invoice_df, ewaybill_df, mode) ==
  IF ~(InvoiceColumns \subseteq invoice_df.columns) \/ ~(InvoiceColumns \subseteq ewaybill_df.columns)
    THEN Raise("KeyError")
  ELSE IF HasStrCell(invoice_df, "invoice_value") \/ HasStrCell(ewaybill_df, "invoice_value")
    THEN Raise("TypeError")
  ELSE
    LET merged == InvoiceEwaybillMerged(invoice_df, ewaybill_df)
        flagged == [k \in DOMAIN merged |->
                      [discrepancy |-> InvoiceEwaybillDiscrepancy(merged[k])] @@ merged[k]]
    IN  IF merged = <<>> /\ mode.empty_frame = "raises"
          THEN Raise("ValueError")
          ELSE Ok(SelectSeq(flagged, LAMBDA r : r.discrepancy # <<>>))

-----------------------------------------------------------------------------
(* Calls of cross_check_invoice_ewaybill on bounded inputs *)

G1 == <<"0","7","A","A","A","A","A","1","2","3","4","A","1","Z","5">>

G2 == <<"2","7","B","B","B","B","B","5","6","7","8","B","2","Z","6">>

D1 == Str(<<"2","0","2","4","-","0","1","-","0","5">>)

D2 == Str(<<"2","0","2","4","-","0","1","-","0","6">>)

\* tax ids: well-formed, the same in lower case (ill-formed), missing
SupplierIds == {Str(G1), Str(lower(G1)), NaN}

RecipientIds == {Str(G2), Str(lower(G2))}

KeyValues == {Str(<<"A","1">>), Str(<<"B","2">>), NaN}

\* amounts in hundredths: 1.00, 1.01, missing
ValueCells == {Num(100), Num(101), NaN}

InvoiceRow(n, d, s, r, v) ==
  [c \in InvoiceColumns |->
     CASE c = "invoice_number" -> n [] c = "invoice_date" -> d
       [] c = "gstin_supplier" -> s [] c = "gstin_recipient" -> r
       [] c = "invoice_value" -> v]

EwaybillRow(n, d, s, r, v) ==
  [c \in EwaybillColumns |->
     IF c = "ewaybill_number" THEN Str(<<"E","1">>) ELSE InvoiceRow(n, d, s, r, v)[c]]

\* one invoice against one e-way bill of the same number, every other field free
WideInvoiceRows ==
  {InvoiceRow(Str(<<"A","1">>), d, s, r, v) :
     d \in {D1, D2}, s \in SupplierIds, r \in RecipientIds, v \in ValueCells}

WideEwaybillRows ==
  {EwaybillRow(Str(<<"A","1">>), d, s, r, v) :
     d \in {D1, D2}, s \in SupplierIds, r \in RecipientIds, v \in ValueCells}

\* several rows per side: number free, the invoice amount a number or a
\* string that is none, the other fields clean
NarrowInvoiceRows ==
  {InvoiceRow(n, D1, Str(G1), Str(G2), v) :
     n \in KeyValues, v \in {Num(100), Str(<<"x">>)}}

NarrowEwaybillRows ==
  {EwaybillRow(n, D1, Str(G1), Str(G2), Num(101)) : n \in KeyValues}

\* one clean invoice against one clean e-way bill, amounts 0.00 or 0.01
CentArgs ==
  {[invoice_df |-> DF(InvoiceColumns, <<InvoiceRow(Str(<<"A","1">>), D1, Str(G1), Str(G2), a)>>),
    ewaybill_df |-> DF(EwaybillColumns, <<EwaybillRow(Str(<<"A","1">>), D1, Str(G1), Str(G2), b)>>)] :
     a \in {Num(0), Num(1)}, b \in {Num(0), Num(1)}}

InvoiceEwaybillArgs ==
  {[invoice_df |-> DF(InvoiceColumns, <<a>>), ewaybill_df |-> DF(EwaybillColumns, <<b>>)] :
     a \in WideInvoiceRows, b \in WideEwaybillRows}
  \cup CentArgs
  \cup
  {[invoice_df |-> a, ewaybill_df |-> b] :
     a \in Frames(InvoiceColumns, NarrowInvoiceRows, MaxRows),
     b \in Frames(EwaybillColumns, NarrowEwaybillRows, MaxRows)}

InitInvoiceEwaybill ==
  /\ all_data = <<>>
  /\ report = <<>>
  /\ args \in InvoiceEwaybillArgs
  /\ merged_df = <<>>
  /\ result = <<>>
  /\ pc = "call"

CallInvoiceEwaybill ==
  /\ pc = "call"
  /\ \E mode \in PandasBuilds :
       result' = cross_check_invoice_ewaybill(args.invoice_df, args.ewaybill_df, mode)
  /\ merged_df' = IF InvoiceColumns \subseteq args.invoice_df.columns \cap args.ewaybill_df.columns
                    THEN InvoiceEwaybillMerged(args.invoice_df, args.ewaybill_df)
                    ELSE <<>>
  /\ pc' = "done"
  /\ UNCHANGED <<all_data, report, args>>

NextInvoiceEwaybill == CallInvoiceEwaybill

SpecInvoiceEwaybill == InitInvoiceEwaybill /\ [][NextInvoiceEwaybill]_vars

Returned == pc = "done" /\ result.ok

\* no row of df has a missing cell in column c
KeysPresent(df, c) == \A i \in DOMAIN df.rows : ~isna(df.rows[i][c])

\* C2: the inner join of cross_check_invoice_ewaybill never yields more
\* matched pairs than min(|invoice rows|, |e-way bill rows|), and so the
\* result never has more records than that minimum.
C2_InnerJoinAtMostMin ==
  (Returned /\ KeysPresent(args.invoice_df, "invoice_number")
            /\ KeysPresent(args.ewaybill_df, "invoice_number")) =>
    /\ Len(merged_df) <= Min(Len(args.invoice_df.rows), Len(args.ewaybill_df.rows))
    /\ Len(result.df) <= Min(Len(args.invoice_df.rows), Len(args.ewaybill_df.rows))

-----------------------------------------------------------------------------
(* cross_check_gstr1_gstr3b *)

\* tolerance = 1.0, in hundredths
tolerance == 100

Metrics == <<"taxable_value", "igst", "cgst", "sgst">>

FlaggedColumns == <<"taxable_value", "igst", "cgst", "sgst", "total">>

\* gstr1 totals minus gstr3b totals, and total_diff = igst + cgst + sgst diffs
Gstr1Gstr3bDiff(gstr1_df, gstr3b_df) ==
  LET d == [c \in {Metrics[i] : i \in DOMAIN Metrics} |->
              SumCol(gstr1_df.rows, c) - SumCol(gstr3b_df.rows, c)]
  IN  [c \in {FlaggedColumns[i] : i \in DOMAIN FlaggedColumns} |->
         IF c = "total" THEN d["igst"] + d["cgst"] + d["sgst"] ELSE d[c]]

ExceedsToleranceSmall(diff) == Abs(diff) > 1

\* a flag raised only beyond twice the tolerance
ExceedsToleranceLarge(diff) == Abs(diff) > 2 * tolerance

\* abs(diff_df[diff_col][0]) > tolerance
ExceedsTolerance(diff) == Abs(diff) > tolerance

cross_check_gstr1_gstr3b(gstr1_df, gstr3b_df) ==
  LET diff == Gstr1Gstr3bDiff(gstr1_df, gstr3b_df)
      flagged == SelectSeq(FlaggedColumns, LAMBDA c : ExceedsTolerance(diff[c]))
  IN  IF flagged = <<>> THEN Ok(<<>>)
      ELSE Ok(<<[index |-> 0,
                 taxable_value_diff |-> diff["taxable_value"],
                 igst_diff |-> diff["igst"],
                 cgst_diff |-> diff["cgst"],
                 sgst_diff |-> diff["sgst"],
                 total_diff |-> diff["total"],
                 discrepancy |-> flagged]>>)

MetricColumns == {"taxable_value", "igst", "cgst", "sgst"}

MetricRow(t, i, c, g) ==
  [k \in MetricColumns |->
     CASE k = "taxable_value" -> t [] k = "igst" -> i [] k = "cgst" -> c [] k = "sgst" -> g]

\* GSTR-1 rows: taxable_value, igst and cgst 0.00 or 0.60, igst possibly
\* missing, sgst 0.00
Gstr1Rows ==
  {MetricRow(t, i, c, Num(0)) :
     t \in {Num(0), Num(60)}, i \in {Num(0), Num(60), NaN}, c \in {Num(0), Num(60)}}

Gstr3bTotalRows ==
  {MetricRow(Num(0), Num(0), Num(0), Num(0)),
   MetricRow(Num(60), Num(60), Num(0), Num(0)),
   MetricRow(Num(0), Num(0), Num(60), Num(60))}

\* totals 1000.00, 180.00, 0.00, 0.00 with the metric k moved by d hundredths
TotalsRow(k, d) ==
  LET base == MetricRow(Num(100000), Num(18000), Num(0), Num(0))
  IN  [c \in MetricColumns |-> IF c = k THEN Num(base[c].num + d) ELSE base[c]]

\* one side at those totals, the other with one metric moved by 0.00, 1.00,
\* 1.01, 1.50 or -1.50
TotalsArgs ==
  {[gstr1_df |-> DF(MetricColumns, <<TotalsRow(k, d)>>),
    gstr3b_df |-> DF(MetricColumns, <<TotalsRow(k, 0)>>)] :
     k \in MetricColumns, d \in {0, 100, 101, 150, -150}}
  \cup
  {[gstr1_df |-> DF(MetricColumns, <<TotalsRow(k, 0)>>),
    gstr3b_df |-> DF(MetricColumns, <<TotalsRow(k, d)>>)] :
     k \in MetricColumns, d \in {0, 100, 101, 150, -150}}

InitGstr1Gstr3b ==
  /\ all_data = <<>>
  /\ report = <<>>
  /\ args \in {[gstr1_df |-> a, gstr3b_df |-> b] :
                 a \in Frames(MetricColumns, Gstr1Rows, MaxRows),
                 b \in Frames(MetricColumns, Gstr3bTotalRows, MaxRows)}
              \cup TotalsArgs
  /\ merged_df = <<>>
  /\ result = <<>>
  /\ pc = "call"

CallGstr1Gstr3b ==
  /\ pc = "call"
  /\ result' = cross_check_gstr1_gstr3b(args.gstr1_df, args.gstr3b_df)
  /\ pc' = "done"
  /\ UNCHANGED <<all_data, report, args, merged_df>>

NextGstr1Gstr3b == CallGstr1Gstr3b

SpecGstr1Gstr3b == InitGstr1Gstr3b /\ [][NextGstr1Gstr3b]_vars

ArgDiff == Gstr1Gstr3bDiff(args.gstr1_df, args.gstr3b_df)

FourWithin == \A i \in DOMAIN Metrics : Abs(ArgDiff[Metrics[i]]) <= tolerance

\* C6 (as claimed): cross_check_gstr1_gstr3b returns an empty result whenever
\* each of the four metric differences (taxable_value, igst, cgst, sgst) is
\* within the tolerance 1.0 in absolute value.
C6_EmptyWhenFourWithin == (Returned /\ FourWithin) => result.df = <<>>

\* C6 (amended): it returns an empty result whenever the four metric
\* differences and the combined total_diff (igst + cgst + sgst differences)
\* are each within the tolerance 1.0 in absolute value.
C6_EmptyWhenFiveWithin ==
  (Returned /\ FourWithin /\ Abs(ArgDiff["total"]) <= tolerance) => result.df = <<>>

\* a call whose five differences are within tolerance, two of them not zero
C6_Witness ==
  /\ Returned /\ FourWithin /\ Abs(ArgDiff["total"]) <= tolerance
  /\ ArgDiff["taxable_value"] = 60 /\ ArgDiff["igst"] = -60 /\ ArgDiff["cgst"] = 60
  /\ result.df = <<>>

-----------------------------------------------------------------------------
(* analyze_circular_trading *)

MaxTx == 3

MaxThreshold == 4

RECURSIVE AddNodes(_, _)
\* the nodes of the graph in the order graph.add_edge first sees them
AddNodes(rows, seen) ==
  IF rows = <<>> THEN seen
  ELSE LET s == Head(rows)["gstin_supplier"]
           r == Head(rows)["gstin_recipient"]
           in(sq, x) == \E i \in DOMAIN sq : sq[i] = x
           s1 == IF in(seen, s) THEN seen ELSE Append(seen, s)
           s2 == IF in(s1, r) THEN s1 ELSE Append(s1, r)
       IN  AddNodes(Tail(rows), s2)

GraphNodes(rows) == AddNodes(rows, <<>>)

\* nx.DiGraph: an edge is present or not, however many rows give it
HasEdge(rows, u, v) ==
  \E i \in DOMAIN rows : rows[i]["gstin_supplier"] = u /\ rows[i]["gstin_recipient"] = v

InSeq(sq, x) == \E i \in DOMAIN sq : sq[i] = x

RECURSIVE WalkAnyRoot(_, _, _)
WalkAnyRoot(rows, root, path) ==
  LET nodes == GraphNodes(rows)
      last == path[Len(path)]
      closes == IF Len(path) >= 2 /\ HasEdge(rows, last, path[1]) THEN <<path>> ELSE <<>>
  IN  closes \o
      Flatten([k \in DOMAIN nodes |->
        IF ~InSeq(path, nodes[k]) /\ HasEdge(rows, last, nodes[k])
          THEN WalkAnyRoot(rows, root, Append(path, nodes[k]))
          ELSE <<>>])

RECURSIVE Walk(_, _, _)
\* the elementary circuits through the node of position root that use no
\* node of an earlier position: each circuit is found from its first node only
Walk(rows, root, path) ==
  LET nodes == GraphNodes(rows)
      last == path[Len(path)]
      closes == IF Len(path) >= 2 /\ HasEdge(rows, last, path[1]) THEN <<path>> ELSE <<>>
  IN  closes \o
      Flatten([k \in DOMAIN nodes |->
        IF k > root /\ ~InSeq(path, nodes[k]) /\ HasEdge(rows, last, nodes[k])
          THEN Walk(rows, root, Append(path, nodes[k]))
          ELSE <<>>])

\* list(nx.simple_cycles(graph)): the self-loops, then the longer circuits
simple_cycles(rows) ==
  LET nodes == GraphNodes(rows)
      loops == SelectSeq(nodes, LAMBDA n : HasEdge(rows, n, n))
  IN  [i \in DOMAIN loops |-> <<loops[i]>>]
      \o Flatten([r \in DOMAIN nodes |-> Walk(rows, r, <<nodes[r]>>)])

AllCycles(cycles, threshold) == cycles

\* [cycle for cycle in cycles if len(cycle) >= threshold]
SuspiciousCycles(cycles, threshold) ==
  SelectSeq(cycles, LAMBDA cycle : Len(cycle) >= threshold)

analyze_circular_trading(transaction_df, gstin_col, threshold) ==
  LET cycles == simple_cycles(transaction_df.rows)
      suspicious_cycles == SuspiciousCycles(cycles, threshold)
  IN  Ok([i \in DOMAIN suspicious_cycles |->
            [index |-> i - 1,
             cycle |-> suspicious_cycles[i],
             cycle_length |-> Len(suspicious_cycles[i])]])

TraderIds == {Str(<<"A">>), Str(<<"B">>), Str(<<"C">>)}

TransactionColumns == {"gstin_supplier", "gstin_recipient", "invoice_number"}

TransactionRows ==
  {[c \in TransactionColumns |->
      CASE c = "gstin_supplier" -> s [] c = "gstin_recipient" -> r
        [] c = "invoice_number" -> Str(<<"A","1">>)] : s \in TraderIds, r \in TraderIds}

InitCircular ==
  /\ all_data = <<>>
  /\ report = <<>>
  /\ args \in {[transaction_df |-> df, gstin_col |-> "gstin_supplier", threshold |-> t] :
                 df \in Frames(TransactionColumns, TransactionRows, MaxTx),
                 t \in 0..MaxThreshold}
  /\ merged_df = <<>>
  /\ result = <<>>
  /\ pc = "call"

CallCircular ==
  /\ pc = "call"
  /\ result' = analyze_circular_trading(args.transaction_df, args.gstin_col, args.threshold)
  /\ pc' = "done"
  /\ UNCHANGED <<all_data, report, args, merged_df>>

NextCircular == CallCircular

SpecCircular == InitCircular /\ [][NextCircular]_vars

SelfLoopRow == \E i \in DOMAIN args.transaction_df.rows :
  args.transaction_df.rows[i]["gstin_supplier"] = args.transaction_df.rows[i]["gstin_recipient"]

NoLengthOneCycle == \A k \in DOMAIN result.df : result.df[k].cycle_length # 1

\* C7 (as claimed): analyze_circular_trading never reports a self-loop as a
\* cycle of length 1, for every dataset and every threshold.
C7_NoSelfLoopAnyThreshold == Returned => NoLengthOneCycle

\* C7 (amended): for every dataset and every threshold of at least 2,
\* analyze_circular_trading reports no self-loop as a cycle of length 1.
C7_NoSelfLoopFromTwo == (Returned /\ args.threshold >= 2) => NoLengthOneCycle

\* a self-billing row next to reciprocal billing, threshold 2: the
\* reciprocal cycle is reported, the self-loop is not
C7_Witness ==
  /\ Returned /\ args.threshold = 2 /\ SelfLoopRow
  /\ Len(result.df) = 1 /\ result.df[1].cycle_length = 2

TxRows == args.transaction_df.rows

NodeSet == {GraphNodes(TxRows)[i] : i \in DOMAIN GraphNodes(TxRows)}

Injective(p) == \A i, j \in DOMAIN p : p[i] = p[j] => i = j

\* the node sequences without repetition over the nodes of the graph
SimpleSeqs ==
  {p \in UNION {[1..m -> NodeSet] : m \in 1..Cardinality(NodeSet)} : Injective(p)}

\* every node of p bills the next one and the last bills the first
IsCycle(rows, p) == \A i \in DOMAIN p : HasEdge(rows, p[i], p[(i % Len(p)) + 1])

IsRotation(c, p) ==
  /\ Len(c) = Len(p)
  /\ \E k \in 0..(Len(p) - 1) : \A i \in DOMAIN p : c[i] = p[((i - 1 + k) % Len(p)) + 1]

\* C8: analyze_circular_trading reports exactly the simple directed cycles
\* of the supplier -> recipient graph with at least threshold nodes: every
\* reported cycle repeats no node, is a cycle of the graph, has cycle_length
\* equal to its node count and at least threshold nodes; and every such
\* cycle of the graph is reported exactly once, whatever its rotation and
\* however many rows repeat an edge (so the result is empty when there is none).
C8_ExactlySimpleCycles ==
  Returned =>
    /\ \A k \in DOMAIN result.df :
         LET c == result.df[k].cycle
         IN  /\ Injective(c)
             /\ IsCycle(TxRows, c)
             /\ result.df[k].cycle_length = Len(c)
             /\ Len(c) >= args.threshold
    /\ \A p \in SimpleSeqs :
         (IsCycle(TxRows, p) /\ Len(p) >= args.threshold) =>
           Cardinality({k \in DOMAIN result.df : IsRotation(result.df[k].cycle, p)}) = 1

\* A -> B, B -> C, C -> A with threshold 3: exactly one cycle, of length 3
C8_Witness ==
  /\ Returned /\ args.threshold = 3
  /\ Len(TxRows) = 3 /\ Cardinality(NodeSet) = 3
  /\ Len(result.df) = 1 /\ result.df[1].cycle_length = 3

-----------------------------------------------------------------------------
(* cross_check_gstr2b_purchase_records *)

\* the index pairs <<i, j>> of pd.merge(how="outer") on the key columns keys:
\* every left row with each right row of equal keys, or with 0 when it has
\* none, then the right rows no left row matches, as <<0, j>>.  (pandas
\* orders the output by key; no reconciler depends on the order.)
OuterPairs(L, R, keys) ==
  LET match(i, j) == \A c \in keys : KeyEq(L[i][c], R[j][c])
      leftPart ==
        Flatten([i \in DOMAIN L |->
          LET ms == SelectSeq([j \in DOMAIN R |-> <<i, j>>], LAMBDA p : match(p[1], p[2]))
          IN  IF ms = <<>> THEN <<<<i, 0>>>> ELSE ms])
      rightOnly ==
        SelectSeq([j \in DOMAIN R |-> <<0, j>>],
                  LAMBDA p : \A i \in DOMAIN L : ~match(i, p[2]))
  IN  leftPart \o rightOnly

\* the indicator column of the outer merge
MergeIndicator(p) ==
  IF p[2] = 0 THEN "left_only" ELSE IF p[1] = 0 THEN "right_only" ELSE "both"

\* the cell of column c of row i of rows, NaN when the side is absent (i = 0)
CellOr(rows, i, c) == IF i = 0 THEN NaN ELSE rows[i][c]

Gstr2bPurchaseMerged(gstr2b_df, purchase_records_df) ==
  LET L == gstr2b_df.rows
      R == purchase_records_df.rows
      pairs == OuterPairs(L, R, {"invoice_number", "gstin_supplier"})
  IN  [k \in DOMAIN pairs |->
        LET i == pairs[k][1]
            j == pairs[k][2]
        IN  [index |-> k - 1,
             left |-> i,
             right |-> j,
             _merge |-> MergeIndicator(pairs[k]),
             invoice_number |-> IF i # 0 THEN L[i]["invoice_number"] ELSE R[j]["invoice_number"],
             gstin_supplier |-> IF i # 0 THEN L[i]["gstin_supplier"] ELSE R[j]["gstin_supplier"],
             invoice_date_gstr2b |-> CellOr(L, i, "invoice_date"),
             invoice_date_purchase |-> CellOr(R, j, "invoice_date"),
             itc_eligible |-> CellOr(L, i, "itc_eligible"),
             itc_amount |-> CellOr(L, i, "itc_amount"),
             itc_claimed |-> CellOr(R, j, "itc_claimed"),
             invoice_value |-> CellOr(R, j, "invoice_value"),
             gstin_supplier_valid_gstr2b |->
               IF i = 0 THEN NaN ELSE validate_gstin(L[i]["gstin_supplier"]),
             gstin_supplier_valid_purchase |->
               IF j = 0 THEN NaN ELSE validate_gstin(R[j]["gstin_supplier"])]]

\* `mask & ~column` under the build's invert (see PandasBuilds)
NotFlag(mode, flag) == IF mode.invert = "bitwise" THEN TRUE ELSE ~flag

\* np.isclose(itc_amount, itc_claimed)
ItcAmountMatch(a, b) == isclose(a, b, NumpyRtol, NumpyAtol)

\* merged_df['itc_eligible'].astype(str).str.lower() == 'false'
ItcNotEligible(v) == lower(astype_str(v)) = <<"f","a","l","s","e">>

\* the discrepancy text of one row of the outer merge
Gstr2bPurchaseDiscrepancy(row, mode) ==
  LET both_present == row._merge = "both"
  IN  Reason(row._merge = "left_only", "Invoice only in GSTR-2B")
      \o Reason(row._merge = "right_only", "Invoice only in Purchase Records")
      \o (IF both_present THEN
            Reason(NotFlag(mode, safe_string_comparison(row.invoice_date_gstr2b,
                                                        row.invoice_date_purchase, TRUE)),
                   "Invoice Date Mismatch")
            \o Reason(NotFlag(mode, ItcAmountMatch(row.itc_amount, row.itc_claimed)),
                      "ITC Amount Mismatch")
            \o Reason(ItcNotEligible(row.itc_eligible), "ITC Not Eligible as per GSTR-2B")
            \o Reason(NotFlag(mode, row.gstin_supplier_valid_gstr2b),
                      "Invalid Supplier GSTIN in GSTR2B")
            \o Reason(NotFlag(mode, row.gstin_supplier_valid_purchase),
                      "Invalid Supplier GSTIN in Purchase Records")
          ELSE <<>>)

Gstr2bColumns == {"invoice_number", "invoice_date", "gstin_supplier", "itc_eligible",
                  "itc_amount"}

PurchaseColumns == {"invoice_number", "invoice_date", "gstin_supplier", "itc_claimed",
                    "invoice_value"}

\* A row outside both_present leaves NaN in the object columns made by
\* `merged_df.loc[both_present, ...] = ...`; `~` on such a column raises
\* TypeError (bad operand type for unary ~: 'float') at the first mask.
cross_check_gstr2b_purchase_records(gstr2b_df, purchase_records_df, mode) ==
  IF ~(Gstr2bColumns \subseteq gstr2b_df.columns)
       \/ ~(PurchaseColumns \subseteq purchase_records_df.columns)
    THEN Raise("KeyError")
  ELSE IF HasStrCell(gstr2b_df, "itc_amount") \/ HasStrCell(purchase_records_df, "itc_claimed")
    THEN Raise("TypeError")
  ELSE
    LET merged == Gstr2bPurchaseMerged(gstr2b_df, purchase_records_df)
        flagged == [k \in DOMAIN merged |->
                      [discrepancy |-> Gstr2bPurchaseDiscrepancy(merged[k], mode)] @@ merged[k]]
    IN  IF \E k \in DOMAIN merged : merged[k]._merge # "both"
          THEN Raise("TypeError")
        ELSE IF merged = <<>> /\ mode.empty_frame = "raises"
          THEN Raise("ValueError")
          ELSE Ok(SelectSeq(flagged, LAMBDA r : r.discrepancy # <<>>))

-----------------------------------------------------------------------------
(* Calls of cross_check_gstr2b_purchase_records on bounded inputs *)

MaxPurchaseRows == 3

\* itc_eligible as the files carry it
EligibleCells == {Str(<<"Y","e","s">>), Str(<<"F","a","l","s","e">>)}

Gstr2bRow(n, d, s, e, a) ==
  [c \in Gstr2bColumns |->
     CASE c = "invoice_number" -> n [] c = "invoice_date" -> d
       [] c = "gstin_supplier" -> s [] c = "itc_eligible" -> e
       [] c = "itc_amount" -> a]

PurchaseRow(n, d, s, a) ==
  [c \in PurchaseColumns |->
     CASE c = "invoice_number" -> n [] c = "invoice_date" -> d
       [] c = "gstin_supplier" -> s [] c = "itc_claimed" -> a
       [] c = "invoice_value" -> Num(1000)]

PurchaseSupplierIds == {Str(G1), Str(lower(G1))}

PurchaseKeys == {Str(<<"A","1">>), Str(<<"B","2">>)}

\* one GSTR-2B row against one purchase record of the same invoice number
WideGstr2bRows ==
  {Gstr2bRow(Str(<<"A","1">>), d, s, e, a) :
     d \in {D1, D2}, s \in PurchaseSupplierIds, e \in EligibleCells, a \in ValueCells}

WidePurchaseRows ==
  {PurchaseRow(Str(<<"A","1">>), d, s, a) :
     d \in {D1, D2}, s \in PurchaseSupplierIds, a \in ValueCells}

\* several rows per side: the two key columns free, the other fields clean
NarrowGstr2bRows ==
  {Gstr2bRow(n, D1, s, Str(<<"Y","e","s">>), Num(100)) :
     n \in PurchaseKeys, s \in PurchaseSupplierIds}

NarrowPurchaseRows ==
  {PurchaseRow(n, D1, s, Num(100)) : n \in PurchaseKeys, s \in PurchaseSupplierIds}

Gstr2bPurchaseArgs ==
  {[gstr2b_df |-> DF(Gstr2bColumns, <<a>>), purchase_records_df |-> DF(PurchaseColumns, <<b>>)] :
     a \in WideGstr2bRows, b \in WidePurchaseRows}
  \cup
  {[gstr2b_df |-> a, purchase_records_df |-> b] :
     a \in Frames(Gstr2bColumns, NarrowGstr2bRows, MaxRows),
     b \in Frames(PurchaseColumns, NarrowPurchaseRows, MaxPurchaseRows)}

InitGstr2bPurchase ==
  /\ all_data = <<>>
  /\ report = <<>>
  /\ args \in Gstr2bPurchaseArgs
  /\ merged_df = <<>>
  /\ result = <<>>
  /\ pc = "call"

\* merged_df is the frame of line 185, whatever the later lines do with it
CallGstr2bPurchase ==
  /\ pc = "call"
  /\ \E mode \in PandasBuilds :
       result' = cross_check_gstr2b_purchase_records(args.gstr2b_df,
                                                     args.purchase_records_df, mode)
  /\ merged_df' = Gstr2bPurchaseMerged(args.gstr2b_df, args.purchase_records_df)
  /\ pc' = "done"
  /\ UNCHANGED <<all_data, report, args>>

NextGstr2bPurchase == CallGstr2bPurchase

SpecGstr2bPurchase == InitGstr2bPurchase /\ [][NextGstr2bPurchase]_vars

\* C3: the outer join of cross_check_gstr2b_purchase_records never has more
\* rows than the two inputs have together.
C3_OuterJoinAtMostSum ==
  pc = "done" =>
    Len(merged_df) <= Len(args.gstr2b_df.rows) + Len(args.purchase_records_df.rows)

\* the (invoice_number, gstin_supplier) key of GSTR-2B row i is carried by no
\* other GSTR-2B row and by no purchase record
OnlyInGstr2b(i) ==
  LET L == args.gstr2b_df.rows
      R == args.purchase_records_df.rows
      same(a, b) == /\ KeyEq(a["invoice_number"], b["invoice_number"])
                    /\ KeyEq(a["gstin_supplier"], b["gstin_supplier"])
  IN  /\ \A k \in DOMAIN L : k # i => ~same(L[i], L[k])
      /\ \A j \in DOMAIN R : ~same(L[i], R[j])

\* C4: a key present only in GSTR-2B gives exactly one record of the result,
\* whose only reason is 'Invoice only in GSTR-2B'.
C4_OnlyInGstr2bOneRecord ==
  pc = "done" =>
    \A i \in DOMAIN args.gstr2b_df.rows :
      OnlyInGstr2b(i) =>
        /\ result.ok
        /\ Cardinality({k \in DOMAIN result.df : result.df[k].left = i}) = 1
        /\ \A k \in DOMAIN result.df :
             result.df[k].left = i => result.df[k].discrepancy = <<"Invoice only in GSTR-2B">>

\* row k of the outer join is in the result with the reason text
Carries(k, text) ==
  /\ result.ok
  /\ \E m \in DOMAIN result.df :
       result.df[m].index = merged_df[k].index /\ InSeq(result.df[m].discrepancy, text)

\* C9: every row of the outer join of cross_check_gstr2b_purchase_records
\* whose supplier GSTIN fails validate_gstin on a side carries that side's
\* 'Invalid Supplier GSTIN ...' reason, matched on the other side or not.
C9_GstinReasonWhateverMatch ==
  pc = "done" =>
    \A k \in DOMAIN merged_df :
      /\ (merged_df[k].left # 0 /\ ~merged_df[k].gstin_supplier_valid_gstr2b)
           => Carries(k, "Invalid Supplier GSTIN in GSTR2B")
      /\ (merged_df[k].right # 0 /\ ~merged_df[k].gstin_supplier_valid_purchase)
           => Carries(k, "Invalid Supplier GSTIN in Purchase Records")

\* C10: a row of cross_check_invoice_ewaybill matched on a present invoice
\* number, in which an invoice value is missing, never carries 'Invoice Value
\* Mismatch'.
C10_MissingAmountNoMismatch ==
  (pc = "done" /\ result.ok) =>
    \A m \in DOMAIN result.df :
      (/\ ~isna(result.df[m].invoice_number)
       /\ isna(result.df[m].invoice_value_invoice) \/ isna(result.df[m].invoice_value_ewaybill))
        => ~InSeq(result.df[m].discrepancy, "Invoice Value Mismatch")

-----------------------------------------------------------------------------
(* The cross-document pass over several loaded datasets, well-formed or not *)

\* GSTR-2B files with and without the 'ITC Available' column
CrossGstr2bFrames ==
  Frames({"Invoice Number", "ITC Available"},
         {[c \in {"Invoice Number", "ITC Available"} |->
             IF c = "Invoice Number" THEN Str(<<"A","1">>) ELSE Str(<<"Y","e","s">>)]},
         MaxRows)
  \cup Frames({"Invoice Number"}, {[c \in {"Invoice Number"} |-> Str(<<"A","1">>)]}, MaxRows)

CrossAnnexbFrames ==
  Frames({"Export Invoice Number"}, {[c \in {"Export Invoice Number"} |-> Str(<<"A","1">>)]},
         MaxRows)

CrossGstr3bFrames ==
  Frames({"Total Taxable Value"}, {[c \in {"Total Taxable Value"} |-> Num(500)]}, MaxRows)

\* general data with and without its invoice-number column
CrossGenFrames ==
  Frames({"Invoice Number", "Total Amount"},
         {[c \in {"Invoice Number", "Total Amount"} |->
             IF c = "Invoice Number" THEN Str(<<"A","1">>) ELSE Num(100)]},
         MaxRows)
  \cup Frames({"Total Amount"}, {[c \in {"Total Amount"} |-> Num(100)]}, MaxRows)

CrossEwaybillFrames ==
  Frames({"Invoice Number", "Total Value"},
         {[c \in {"Invoice Number", "Total Value"} |->
             IF c = "Invoice Number" THEN Str(<<"a","1">>) ELSE v] : v \in {Num(100), Num(200)}},
         MaxRows)

NextCrossDoc ==
  \/ \E df \in CrossGstr2bFrames : LoadData("gstr2b_data", df)
  \/ \E df \in CrossAnnexbFrames : LoadData("annexureb_data", df)
  \/ \E df \in CrossGstr3bFrames : LoadData("gstr3b_data", df)
  \/ \E df \in CrossGenFrames : LoadData("gst_gen_data", df)
  \/ \E df \in CrossEwaybillFrames : LoadData("ewaybill_data", df)
  \/ EnterMenu
  \/ check_cross_document_consistency

SpecCrossDoc == InitVerifier /\ [][NextCrossDoc]_vars

\* the cross-document pass was taken, to its end or to an exception
CrossPassTaken == pc \in {"menu", "raised"} /\ "cross_document_consistency" \in DOMAIN report

\* every error of errs is in the cross-document entry of the report
Recorded(errs) ==
  \A k \in DOMAIN errs : \E e \in DOMAIN CrossErrors : CrossErrors[e] = errs[k]

\* C11: whatever happens to the other pair checks, each pair check that can
\* run on the loaded data has run, and its findings are in the report, once
\* the cross-document pass was taken.
C11_PairCheckFailureNotFatal ==
  CrossPassTaken =>
    /\ (Check1.ran /\ Check1.ok) => Recorded(Check1Errors(Check1.df))
    /\ (Check2.ran /\ Check2.ok) => Recorded(Check2Errors(Check2.df))
    /\ (Check3.ran /\ Check3.ok) => Recorded(Check3Errors(Check3.df))

-----------------------------------------------------------------------------
(* Dates *)

\* the positions of the character c in s
Positions(s, c) == {i \in DOMAIN s : s[i] = c}

IsLeap(y) == (y % 4 = 0 /\ y % 100 # 0) \/ y % 400 = 0

DaysIn(y, m) ==
  IF m = 2 THEN (IF IsLeap(y) THEN 29 ELSE 28)
  ELSE IF m \in {4, 6, 9, 11} THEN 30 ELSE 31

\* pd.to_datetime(cell, format="%Y-%m-%d", errors="coerce").date(): the date
\* [year, month, day] of a string of the form YYYY-M[M]-D[D] naming a day of
\* the calendar, NaN (NaT) for every other cell
to_datetime(v) ==
  IF ~IsStr(v) THEN NaN
  ELSE
    LET s == v.str
        P == Positions(s, "-")
    IN  IF Cardinality(P) # 2 THEN NaN
        ELSE
          LET i == CHOOSE x \in P : \A y \in P : x <= y
              j == CHOOSE x \in P : \A y \in P : x >= y
              ys == SubSeq(s, 1, i - 1)
              ms == SubSeq(s, i + 1, j - 1)
              ds == SubSeq(s, j + 1, Len(s))
          IN  IF ~(AllDigits(ys) /\ AllDigits(ms) /\ AllDigits(ds)) THEN NaN
              ELSE IF Len(ys) # 4 \/ Len(ms) > 2 \/ Len(ds) > 2 THEN NaN
              ELSE IF ParseNat(ys) = 0 \/ ParseNat(ms) \notin 1..12 THEN NaN
              ELSE IF ParseNat(ds) \notin 1..DaysIn(ParseNat(ys), ParseNat(ms)) THEN NaN
              ELSE [year |-> ParseNat(ys), month |-> ParseNat(ms), day |-> ParseNat(ds)]

\* d1 > d2 on dates
DateAfter(d1, d2) ==
  \/ d1.year > d2.year
  \/ d1.year = d2.year /\ d1.month > d2.month
  \/ d1.year = d2.year /\ d1.month = d2.month /\ d1.day > d2.day

-----------------------------------------------------------------------------
(* GSTVerifier.check_data and the per-document checks, under a config that
   maps no column name and sets no gst_rate *)

gstin_col == "GSTIN"

inv_date_col == "Invoice Date"

tax_amt_col == "Tax Amount"

\* GSTVerifier._validate_gstin: str(gstin) is matched, and the str of a
\* float never has the 15 positions
_validate_gstin(gstin) ==
  IF isna(gstin) THEN FALSE
  ELSE IF IsStr(gstin) THEN GstinPatternMatches(gstin.str)
  ELSE FALSE

\* one error as _add_error stores it: index is the row label, and 2 is added
\* to it for the header line and 1-based counting
RowError(index, column, value, description) ==
  [row |-> index + 2, column |-> column, value |-> value, description |-> description]

\* the errors of one rule: one per row that bad(row) holds of, in index order
RuleErrors(rows, column, description, Bad) ==
  LET hit == SelectSeq([i \in DOMAIN rows |-> i], LAMBDA i : Bad[i])
  IN  [k \in DOMAIN hit |-> RowError(hit[k] - 1, column, rows[hit[k]][column], description)]

\* _check_columns: the 'Missing required column' errors, in list order
MissingColumnErrors(data, required_columns) ==
  LET missing_cols == SelectSeq(required_columns, LAMBDA c : c \notin data.columns)
  IN  [k \in DOMAIN missing_cols |->
         [description |-> <<"Missing required column: ", missing_cols[k]>>]]

\* 2. GSTIN Validation of every per-document check
GstinErrors(data, column, description) ==
  IF column \notin data.columns THEN <<>>
  ELSE RuleErrors(data.rows, column, description,
                  [i \in DOMAIN data.rows |-> ~_validate_gstin(data.rows[i][column])])

LowerSet == {LowerAlpha[i] : i \in DOMAIN LowerAlpha}

\* Series.astype(str).str.match(r"^[A-Za-z0-9/-]+$"): one or more of the
\* listed characters up to the end, or up to one trailing newline
InvNumPatternMatches(s) ==
  LET n == IF s # <<>> /\ s[Len(s)] = "\n" THEN Len(s) - 1 ELSE Len(s)
  IN  /\ n >= 1
      /\ \A i \in 1..n : s[i] \in UpperSet \cup LowerSet \cup Digits \cup {"/", "-"}

\* Series.astype(str) on one cell of any column
astype_str_any(v) == IF isna(v) THEN <<"n","a","n">> ELSE py_str(v)

\* the quotient n / d rounded to the nearest integer, halves to the even one
\* (Series.round)
RoundHalfEven(n, d) ==
  LET q == n \div d
      r == n % d
  IN  IF 2 * r < d THEN q
      ELSE IF 2 * r > d THEN q + 1
      ELSE IF q % 2 = 0 THEN q ELSE q + 1

\* a row whose every total counts as negative unless it is a positive number
not_positive_total_mask(total) == isna(total) \/ total.num < 0

\* negative_total_mask of one row: (~invalid_numeric_mask) & (total < 0)
negative_total_mask(total) == ~isna(total) /\ total.num < 0

\* self.config["gst_rate"]: absent, a fixed rate in percent (hundredths of a
\* percent here), or the name of a column holding the rate
NoRate == [kind |-> "none"]

FixedRate(r) == [kind |-> "number", rate |-> r]

RateColumn(c) == [kind |-> "column", name |-> c]

\* df["expected_tax"] of one row: (total * rate / 100).round(2), NaN when the
\* total or the rate is, or when no rate is configured
expected_tax(data, row, gst_rate) ==
  LET total == to_numeric(row[tot_amt_col])
      rate == IF gst_rate.kind = "column" /\ gst_rate.name \in data.columns
                THEN to_numeric(row[gst_rate.name])
              ELSE IF gst_rate.kind = "number" THEN Num(gst_rate.rate)
              ELSE NaN
  IN  IF isna(total) \/ isna(rate) THEN NaN
      ELSE Num(RoundHalfEven(total.num * rate.num, 10000))

\* the tax-consistency rule of _check_general_data; the text of the
\* description ends with the expected tax, kept here in a field of its own
TaxInconsistencyErrors(data, gst_rate) ==
  IF tax_amt_col \notin data.columns \/ tot_amt_col \notin data.columns THEN <<>>
  ELSE
    LET rows == data.rows
        tax == [i \in DOMAIN rows |-> to_numeric(rows[i][tax_amt_col])]
        expected == [i \in DOMAIN rows |-> expected_tax(data, rows[i], gst_rate)]
        valid_for_tax_check ==
          [i \in DOMAIN rows |->
             ~isna(to_numeric(rows[i][tot_amt_col])) /\ ~isna(tax[i]) /\ ~isna(expected[i])]
        tax_inconsistency == [i \in DOMAIN rows |->
                                valid_for_tax_check[i] /\ Abs(tax[i].num - expected[i].num) > 1]
        hit == SelectSeq([i \in DOMAIN rows |-> i], LAMBDA i : tax_inconsistency[i])
    IN  [k \in DOMAIN hit |->
           [row |-> hit[k] + 1, column |-> tax_amt_col, value |-> tax[hit[k]],
            description |-> "Tax amount inconsistent with total amount",
            expected |-> expected[hit[k]]]]

\* the row-level rules of _check_general_data, in the order of the method;
\* today is datetime.now().date(), gst_rate the configured rate
GeneralDataErrors(data, today, gst_rate) ==
  LET rows == data.rows
      parsed_date == [i \in DOMAIN rows |-> to_datetime(rows[i][inv_date_col])]
      total == [i \in DOMAIN rows |-> to_numeric(rows[i][tot_amt_col])]
      invalid_date == [i \in DOMAIN rows |-> isna(parsed_date[i])]
      future_date == [i \in DOMAIN rows |->
                        ~invalid_date[i] /\ DateAfter(parsed_date[i], today)]
      invalid_numeric == [i \in DOMAIN rows |-> isna(total[i])]
      negative_total == [i \in DOMAIN rows |-> negative_total_mask(total[i])]
      invalid_inv_num == [i \in DOMAIN rows |->
                            ~InvNumPatternMatches(astype_str_any(rows[i][inv_num_col]))]
      numeric_hit == SelectSeq([i \in DOMAIN rows |-> i], LAMBDA i : invalid_numeric[i])
      negative_hit == SelectSeq([i \in DOMAIN rows |-> i], LAMBDA i : negative_total[i])
  IN  GstinErrors(data, gstin_col, "Invalid GSTIN format")
      \o RuleErrors(rows, inv_date_col, "Invalid date format (expected %Y-%m-%d)", invalid_date)
      \o RuleErrors(rows, inv_date_col, "Future invoice date", future_date)
      \o [k \in DOMAIN numeric_hit |->
            RowError(numeric_hit[k] - 1, tot_amt_col, <<"Total: ", NaN>>,
                     "Invalid numeric format")]
      \o [k \in DOMAIN negative_hit |->
            RowError(negative_hit[k] - 1, tot_amt_col, total[negative_hit[k]],
                     "Negative total amount")]
      \o TaxInconsistencyErrors(data, gst_rate)
      \o RuleErrors(rows, inv_num_col,
                    "Invalid invoice number format (only A-Z, a-z, 0-9, -, / allowed)",
                    invalid_inv_num)

\* the rules under a config without gst_rate
GeneralDataRowErrors(data, today) == GeneralDataErrors(data, today, NoRate)

\* required_columns of each per-document check, in list order
RequiredColumns(data_type_short) ==
  CASE data_type_short = "gst_gen" ->
         <<gstin_col, inv_num_col, inv_date_col, tot_amt_col>>
    [] data_type_short = "gstr2b" ->
         <<gstin_col, inv_num_col, inv_date_col, "IGST Amount", "CGST Amount", "SGST Amount",
           "Total Taxable Value", "ITC Available">>
    [] data_type_short = "annexureb" ->
         <<gstin_col, "Export Invoice Number", "Export Date", "Port Code",
           "Shipping Bill Number", "Shipping Bill Date", "Export Value", "Tax Paid",
           "Country of Destination">>
    [] data_type_short = "gstr3b" -> <<gstin_col, "Tax Period">>
    [] data_type_short = "rfd01" -> <<gstin_col, "Refund Period From", "Refund Period To">>
    [] data_type_short = "ewaybill" -> <<"E-way Bill Number">>

\* the row-level errors of a per-document check whose required columns are
\* all present.  _check_general_data is followed rule by rule; of the other
\* five methods the GSTIN rule, which opens each of them, is followed, and
\* their later rules (dates, periods, amounts, codes), which append errors of
\* the same form, are not.
RowLevelErrors(data_type_short, data, today) ==
  CASE data_type_short = "gst_gen" -> GeneralDataRowErrors(data, today)
    [] data_type_short \in {"gstr2b", "annexureb", "gstr3b", "rfd01"} ->
         GstinErrors(data, gstin_col, "Invalid GSTIN format")
    [] data_type_short = "ewaybill" ->
         GstinErrors(data, "Supplier GSTIN", "Invalid Supplier GSTIN format")
         \o GstinErrors(data, "Recipient GSTIN", "Invalid Recipient GSTIN format")

\* a check that reports the absent columns and runs its GSTIN rule all the same
CheckErrorsPartialRun(data_type_short, data, today) ==
  MissingColumnErrors(data, RequiredColumns(data_type_short))
  \o GstinErrors(data, gstin_col, "Invalid GSTIN format")

\* the errors one run of the per-document check adds
CheckErrors(data_type_short, data, today) ==
  LET missing == MissingColumnErrors(data, RequiredColumns(data_type_short))
  IN  IF missing # <<>> THEN missing ELSE RowLevelErrors(data_type_short, data, today)

DataTypes == {"gst_gen", "gstr2b", "annexureb", "gstr3b", "rfd01", "ewaybill"}

\* data_type_short + "_data"
DataKey(data_type_short) ==
  CASE data_type_short = "gst_gen" -> "gst_gen_data"
    [] data_type_short = "gstr2b" -> "gstr2b_data"
    [] data_type_short = "annexureb" -> "annexureb_data"
    [] data_type_short = "gstr3b" -> "gstr3b_data"
    [] data_type_short = "rfd01" -> "rfd01_data"
    [] data_type_short = "ewaybill" -> "ewaybill_data"

\* the errors of the report entry of key, none when there is no entry
ReportErrors(key) == IF key \in DOMAIN report THEN report[key] ELSE <<>>

\* a report entry longer than this is not checked again
MaxErrors == 4

\* check_data(data_type_short), chosen in the menu of run(), which offers it
\* for loaded data only.  load_and_set_current_data turns an empty frame
\* away; _add_error creates the report entry at the first error and appends
\* to it from then on.
check_data(data_type_short, today) ==
  LET key == DataKey(data_type_short)
      data == all_data[key]
      errs == IF data.rows = <<>> THEN <<>> ELSE CheckErrors(data_type_short, data, today)
  IN  /\ pc = "menu"
      /\ key \in DOMAIN all_data
      /\ Len(ReportErrors(key)) <= MaxErrors
      /\ report' = IF errs = <<>> THEN report
                   ELSE SetReport(report, key, ReportErrors(key) \o errs)
      /\ args' = [call |-> "check_data", data_type_short |-> data_type_short, today |-> today]
      /\ result' = errs
      /\ UNCHANGED <<all_data, merged_df, pc>>

-----------------------------------------------------------------------------
(* Sessions of one loaded file and its per-document check *)

\* the days the checks are run on: D1 is today or yesterday, D2 today or tomorrow
Todays == {to_datetime(D1), to_datetime(D2)}

\* a cell of every column the checks read, well-formed (every rule passes on
\* every day of Todays) or not
CleanCell(c) ==
  IF c \in {gstin_col, "Supplier GSTIN", "Recipient GSTIN"} THEN Str(G1)
  ELSE IF c = inv_date_col THEN D1
  ELSE IF c = tot_amt_col THEN Num(100)
  ELSE Str(<<"A","1">>)

\* the ill-formed cells of a column that a rule of the check reads
DirtyCells(data_type_short, c) ==
  IF c \in {gstin_col, "Supplier GSTIN", "Recipient GSTIN"} THEN {Str(lower(G1)), NaN}
  ELSE IF data_type_short # "gst_gen" THEN {}
  ELSE IF c = inv_date_col THEN {D2, Str(<<"0","5","/","0","1">>), NaN}
  ELSE IF c = tot_amt_col THEN {Num(-100), Str(<<"x">>)}
  ELSE IF c = inv_num_col THEN {Str(<<"A"," ","1">>), NaN}
  ELSE {}

\* the columns a file of the data type may carry
FileColumns(data_type_short) ==
  {RequiredColumns(data_type_short)[i] : i \in DOMAIN RequiredColumns(data_type_short)}
  \cup (IF data_type_short = "ewaybill" THEN {"Supplier GSTIN", "Recipient GSTIN"} ELSE {})

\* the rows over the columns cols: the clean row, and the clean row with one
\* cell made dirty
CheckRows(data_type_short, cols) ==
  {[c \in cols |-> CleanCell(c)]}
  \cup {[c \in cols |-> IF c = dv[1] THEN dv[2] ELSE CleanCell(c)] : dv \in
          UNION {{<<d, v>> : v \in DirtyCells(data_type_short, d)} : d \in cols}}

\* the files of the data type: every column present, or any one or two of
\* them absent, or none present but one the check does not read
CheckColumnSets(data_type_short) ==
  LET full == FileColumns(data_type_short)
  IN  {full \ gone : gone \in {g \in SUBSET full : Cardinality(g) <= 2}}
      \cup {{"Remarks"}}

CheckFrames(data_type_short) ==
  UNION {Frames(cols, CheckRows(data_type_short, cols), MaxRows) :
           cols \in CheckColumnSets(data_type_short)}

\* load_all_data on a directory holding one data file
LoadOneFile ==
  /\ DOMAIN all_data = {}
  /\ \E k \in DataTypes : \E df \in CheckFrames(k) : LoadData(DataKey(k), df)

NextCheckData ==
  \/ LoadOneFile
  \/ EnterMenu
  \/ \E k \in DataTypes, today \in Todays : check_data(k, today)

SpecCheckData == InitVerifier /\ [][NextCheckData]_vars

\* check_data has run in this session
CheckDataCalled == "call" \in DOMAIN args

\* C12: once check_data(k) has run on the loaded data, running it again on
\* the same day leaves the report as the first run left it.
C12_SecondRunLeavesEntry ==
  [][(CheckDataCalled /\ args'.today = args.today) => report' = report]_vars

\* the data the last check_data call was made on
CheckedData == all_data[DataKey(args.data_type_short)]

\* the required columns the checked data lacks
AbsentColumns ==
  {RequiredColumns(args.data_type_short)[i] : i \in DOMAIN RequiredColumns(args.data_type_short)}
  \ CheckedData.columns

\* the per-document check was reached on data lacking a required column
CheckedWithAbsentColumn ==
  CheckDataCalled /\ CheckedData.rows # <<>> /\ AbsentColumns # {}

\* C16: a per-document check reached on data that lacks required columns
\* adds one 'Missing required column' entry for each of them and nothing
\* else, no row-level entry among it, to the report entry of the data type.
C16_MissingColumnsOnly ==
  CheckedWithAbsentColumn =>
    /\ \A c \in AbsentColumns :
         Cardinality({i \in DOMAIN result :
                        result[i] = [description |-> <<"Missing required column: ", c>>]}) = 1
    /\ \A i \in DOMAIN result :
         /\ "row" \notin DOMAIN result[i]
         /\ \E c \in AbsentColumns :
              result[i] = [description |-> <<"Missing required column: ", c>>]
    /\ LET entry == ReportErrors(DataKey(args.data_type_short))
       IN  /\ Len(entry) >= Len(result)
           /\ SubSeq(entry, Len(entry) - Len(result) + 1, Len(entry)) = result

\* an Annexure B file lacking two required columns, with an ill-formed GSTIN
\* in a row, was checked
C16_Witness ==
  /\ CheckedWithAbsentColumn
  /\ args.data_type_short = "annexureb"
  /\ Cardinality(AbsentColumns) = 2
  /\ gstin_col \in CheckedData.columns
  /\ \E i \in DOMAIN CheckedData.rows : ~_validate_gstin(CheckedData.rows[i][gstin_col])

\* C13: no record returned by cross_check_invoice_ewaybill joins rows whose
\* invoice number is missing: a missing key matches no row of the other
\* dataset, a row with a missing key included.
C13_MissingKeyNeverMatched ==
  (pc = "done" /\ "invoice_df" \in DOMAIN args /\ result.ok) =>
    \A m \in DOMAIN result.df :
      /\ ~isna(args.invoice_df.rows[result.df[m].left]["invoice_number"])
      /\ ~isna(args.ewaybill_df.rows[result.df[m].right]["invoice_number"])

-----------------------------------------------------------------------------
(* Calls of validate_gstin and of GSTVerifier._validate_gstin on bounded inputs *)

\* G1 with one position replaced, G1 with a character before or after it,
\* G1 in lower case, G1 cut short, the empty string, a missing value, a number
GstinInputs ==
  {Str([G1 EXCEPT ![i] = c]) : i \in 1..15, c \in {"0", "a", "A", "Z", "5"}}
  \cup {Str(G1 \o <<c>>) : c \in {"\n", " ", "5"}}
  \cup {Str(<<c>> \o G1) : c \in {"\n", " "}}
  \cup {Str(lower(G1)), Str(SubSeq(G1, 1, 14)), Str(<<>>), NaN, Num(700)}

InitValidateGstin ==
  /\ all_data = <<>>
  /\ report = <<>>
  /\ args \in {[gstin |-> g] : g \in GstinInputs}
  /\ merged_df = <<>>
  /\ result = <<>>
  /\ pc = "call"

CallValidateGstin ==
  /\ pc = "call"
  /\ result' = [validate_gstin |-> validate_gstin(args.gstin),
                _validate_gstin |-> _validate_gstin(args.gstin)]
  /\ pc' = "done"
  /\ UNCHANGED <<all_data, report, args, merged_df>>

NextValidateGstin == CallValidateGstin

SpecValidateGstin == InitValidateGstin /\ [][NextValidateGstin]_vars

\* C14: validate_gstin and _validate_gstin return false for a missing value
\* and for a value that is no string, and true only for a string of exactly
\* 15 characters: 2 digits, 5 upper-case letters, 4 digits, 1 upper-case
\* letter, 1 alphanumeric, Z, 1 alphanumeric; true for 07AAAAA1234A1Z5 and
\* false for the same in lower case.
C14_TrueOnlyForFifteenCharacters ==
  (pc = "done" /\ "gstin" \in DOMAIN args) =>
    LET g == args.gstin
        form(i) == IF i <= 2 THEN Digits
                   ELSE IF i <= 7 THEN UpperSet
                   ELSE IF i <= 11 THEN Digits
                   ELSE IF i = 12 THEN UpperSet
                   ELSE IF i = 14 THEN {"Z"}
                   ELSE Digits \cup UpperSet
        wellFormed == /\ IsStr(g)
                      /\ Len(g.str) = 15
                      /\ \A i \in 1..15 : g.str[i] \in form(i)
    IN  /\ result.validate_gstin => wellFormed
        /\ result._validate_gstin => wellFormed
        /\ g = Str(G1) => result.validate_gstin /\ result._validate_gstin
        /\ g = Str(lower(G1)) => ~result.validate_gstin /\ ~result._validate_gstin

-----------------------------------------------------------------------------
(* Calls of safe_string_comparison on bounded inputs *)

\* missing, strings differing in case, in length or throughout, the empty
\* string, numbers and the strings that write them
ComparisonCells ==
  {NaN, Str(<<"X">>), Str(<<"x">>), Str(<<"x","y">>), Str(<<"X","Y">>), Str(<<"y">>),
   Str(<<>>), Str(<<"1",".","0">>), Str(<<"1",".","5">>), Num(100), Num(150), Num(-25)}

\* a call that passes ignore_case and a call that leaves it to its default
ComparisonArgs ==
  {[str1 |-> a, str2 |-> b, ignore_case |-> c] :
     a \in ComparisonCells, b \in ComparisonCells, c \in BOOLEAN}
  \cup {[str1 |-> a, str2 |-> b] : a \in ComparisonCells, b \in ComparisonCells}

InitSafeStringComparison ==
  /\ all_data = <<>>
  /\ report = <<>>
  /\ args \in ComparisonArgs
  /\ merged_df = <<>>
  /\ result = <<>>
  /\ pc = "call"

CallSafeStringComparison ==
  /\ pc = "call"
  /\ result' = [value |->
                  safe_string_comparison(args.str1, args.str2,
                    IF "ignore_case" \in DOMAIN args THEN args.ignore_case ELSE TRUE)]
  /\ pc' = "done"
  /\ UNCHANGED <<all_data, report, args, merged_df>>

NextSafeStringComparison == CallSafeStringComparison

SpecSafeStringComparison == InitSafeStringComparison /\ [][NextSafeStringComparison]_vars

\* C15: safe_string_comparison(a, b, ignore_case) is true when both a and b
\* are missing, false when exactly one is, and otherwise true exactly when
\* str(a) and str(b) are equal: character by character up to the case of
\* letters when ignore_case is true or left to its default, character by
\* character when it is false.
C15_SafeStringComparison ==
  (pc = "done" /\ "str1" \in DOMAIN args) =>
    LET a == args.str1
        b == args.str2
        fold == IF "ignore_case" \in DOMAIN args THEN args.ignore_case ELSE TRUE
        sameLetter(c, d) ==
          \/ c = d
          \/ \E i \in DOMAIN UpperAlpha :
               {c, d} = {UpperAlpha[i], LowerAlpha[i]}
        equal(s, t) ==
          /\ Len(s) = Len(t)
          /\ \A i \in DOMAIN s : IF fold THEN sameLetter(s[i], t[i]) ELSE s[i] = t[i]
    IN  result.value =
          IF a = NaN /\ b = NaN THEN TRUE
          ELSE IF a = NaN \/ b = NaN THEN FALSE
          ELSE equal(py_str(a), py_str(b))

\* "X" was compared with "x" with ignore_case left to its default, and found equal
C15_Witness ==
  /\ pc = "done"
  /\ args = [str1 |-> Str(<<"X">>), str2 |-> Str(<<"x">>)]
  /\ result.value

\* the discrepancy text cross_check_invoice_ewaybill returned for the k-th
\* matched pair: empty when the pair is not among the returned records
ReturnedText(k) ==
  IF \E m \in DOMAIN result.df : result.df[m].index = k - 1
    THEN result.df[CHOOSE m \in DOMAIN result.df : result.df[m].index = k - 1].discrepancy
    ELSE <<>>

\* C17: for every matched pair of cross_check_invoice_ewaybill, each of the
\* eight reasons is in the pair's discrepancy text exactly when its own rule
\* fails, whatever the other seven rules find.
C17_EachReasonIffItsRuleFails ==
  (Returned /\ "invoice_df" \in DOMAIN args) =>
    \A k \in DOMAIN merged_df :
      LET inv == args.invoice_df.rows[merged_df[k].left]
          ewb == args.ewaybill_df.rows[merged_df[k].right]
          text == ReturnedText(k)
      IN  /\ InSeq(text, "Invoice Date Mismatch")
               <=> ~safe_string_comparison(inv["invoice_date"], ewb["invoice_date"], TRUE)
          /\ InSeq(text, "Supplier GSTIN Mismatch")
               <=> ~safe_string_comparison(inv["gstin_supplier"], ewb["gstin_supplier"], TRUE)
          /\ InSeq(text, "Recipient GSTIN Mismatch")
               <=> ~safe_string_comparison(inv["gstin_recipient"], ewb["gstin_recipient"], TRUE)
          /\ InSeq(text, "Invoice Value Mismatch")
               <=> ~InvoiceValueMatch(inv["invoice_value"], ewb["invoice_value"])
          /\ InSeq(text, "Invalid Supplier GSTIN in Invoice")
               <=> ~validate_gstin(inv["gstin_supplier"])
          /\ InSeq(text, "Invalid Recipient GSTIN in Invoice")
               <=> ~validate_gstin(inv["gstin_recipient"])
          /\ InSeq(text, "Invalid Supplier GSTIN in Ewaybill")
               <=> ~validate_gstin(ewb["gstin_supplier"])
          /\ InSeq(text, "Invalid Recipient GSTIN in Ewaybill")
               <=> ~validate_gstin(ewb["gstin_recipient"])
          /\ Len(text) <= 8

\* a returned record carries a date mismatch, a value mismatch and an
\* ill-formed supplier GSTIN on the e-way bill side together, while its
\* supplier GSTINs agree up to case
C17_Witness ==
  /\ Returned
  /\ "invoice_df" \in DOMAIN args
  /\ \E m \in DOMAIN result.df :
       /\ InSeq(result.df[m].discrepancy, "Invoice Date Mismatch")
       /\ InSeq(result.df[m].discrepancy, "Invoice Value Mismatch")
       /\ InSeq(result.df[m].discrepancy, "Invalid Supplier GSTIN in Ewaybill")
       /\ ~InSeq(result.df[m].discrepancy, "Supplier GSTIN Mismatch")
       /\ ~InSeq(result.df[m].discrepancy, "Invalid Supplier GSTIN in Invoice")

-----------------------------------------------------------------------------
(* cross_check_export_documents *)

ExportInvoiceColumns ==
  {"invoice_number", "invoice_date", "invoice_value", "gstin_supplier", "export_value"}

ShippingBillColumns ==
  {"shipping_bill_number", "invoice_number", "shipping_date", "export_value_shipping"}

BrcColumns == {"brc_number", "invoice_number", "realization_date", "realized_amount"}

\* the index pairs <<i, j>> of pd.merge(how="left") on invoice_number: every
\* left row with each right row of equal key, or with 0 when it has none
LeftPairs(L, R) ==
  Flatten([i \in DOMAIN L |->
    LET ms == SelectSeq([j \in DOMAIN R |-> <<i, j>>],
                        LAMBDA p : KeyEq(L[p[1]]["invoice_number"], R[p[2]]["invoice_number"]))
    IN  IF ms = <<>> THEN <<<<i, 0>>>> ELSE ms])

\* the two left merges: export invoices with shipping bills, then with BRCs
ExportMerged(export_invoice_df, shipping_bill_df, brc_df) ==
  LET E == export_invoice_df.rows
      S == shipping_bill_df.rows
      B == brc_df.rows
      first == LeftPairs(E, S)
      firstRows == [k \in DOMAIN first |->
                      [invoice_number |-> E[first[k][1]]["invoice_number"],
                       left |-> first[k][1], shipping |-> first[k][2]]]
      second == LeftPairs(firstRows, B)
  IN  [k \in DOMAIN second |->
        LET i == firstRows[second[k][1]].left
            j == firstRows[second[k][1]].shipping
            l == second[k][2]
        IN  [index |-> k - 1,
             left |-> i,
             shipping |-> j,
             brc |-> l,
             invoice_number |-> E[i]["invoice_number"],
             invoice_date |-> E[i]["invoice_date"],
             invoice_value |-> E[i]["invoice_value"],
             gstin_supplier |-> E[i]["gstin_supplier"],
             export_value |-> E[i]["export_value"],
             gstin_supplier_valid |-> validate_gstin(E[i]["gstin_supplier"]),
             shipping_bill_number |-> CellOr(S, j, "shipping_bill_number"),
             shipping_date |-> CellOr(S, j, "shipping_date"),
             export_value_shipping |-> CellOr(S, j, "export_value_shipping"),
             brc_number |-> CellOr(B, l, "brc_number"),
             realization_date |-> CellOr(B, l, "realization_date"),
             realized_amount |-> CellOr(B, l, "realized_amount")]]

\* the row has a shipping bill and a BRC
BothPresent(row) == ~(isna(row.shipping_bill_number) \/ isna(row.brc_number))

\* realized_amount < export_value: False when either is missing
RealizedLess(a, b) == IF isna(a) \/ isna(b) THEN FALSE ELSE a.num < b.num

\* the discrepancy text of one row of the merge when every row has both
\* documents
ExportDiscrepancy(row, mode) ==
  Reason(isna(row.shipping_bill_number), "Missing Shipping Bill")
  \o Reason(isna(row.brc_number), "Missing Bank Realization Certificate")
  \o (IF BothPresent(row) THEN
        Reason(NotFlag(mode, safe_string_comparison(row.invoice_date, row.shipping_date, TRUE)),
               "Invoice Date and Shipping Date Mismatch")
        \o Reason(NotFlag(mode, isclose(row.export_value, row.export_value_shipping,
                                        NumpyRtol, NumpyAtol)),
                  "Export Value Mismatch between Invoice and Shipping Bill")
        \o Reason(RealizedLess(row.realized_amount, row.export_value),
                  "Realized Amount Less Than Export Value")
        \o Reason(NotFlag(mode, row.gstin_supplier_valid),
                  "Invalid Supplier GSTIN in Export Invoice")
      ELSE <<>>)

\* The four columns made by `merged_df.loc[both_present, name] = values` hold
\* NaN in every row outside both_present; `~` on such a column raises
\* TypeError (unary ~ on a float), so the call returns only when every row of
\* the merge has both documents.  With no row in both_present the assignment
\* of the empty apply() result raises ValueError under some builds, before
\* the `~` is reached.
cross_check_export_documents(export_invoice_df, shipping_bill_df, brc_df, mode) ==
  IF \/ ~({"gstin_supplier", "invoice_number", "invoice_date", "export_value"}
            \subseteq export_invoice_df.columns)
     \/ ~({"invoice_number", "shipping_bill_number", "shipping_date", "export_value_shipping"}
            \subseteq shipping_bill_df.columns)
     \/ ~({"invoice_number", "brc_number", "realized_amount"} \subseteq brc_df.columns)
    THEN Raise("KeyError")
  ELSE
    LET merged == ExportMerged(export_invoice_df, shipping_bill_df, brc_df)
        flagged == [k \in DOMAIN merged |->
                      [discrepancy |-> ExportDiscrepancy(merged[k], mode)] @@ merged[k]]
    IN  IF \A k \in DOMAIN merged : ~BothPresent(merged[k])
          THEN IF mode.empty_frame = "raises" THEN Raise("ValueError")
               ELSE IF merged = <<>> THEN Ok(<<>>)
               ELSE Raise("TypeError")
        ELSE IF HasStrCell(export_invoice_df, "export_value")
                \/ HasStrCell(shipping_bill_df, "export_value_shipping")
                \/ HasStrCell(brc_df, "realized_amount")
          THEN Raise("TypeError")
        ELSE IF \E k \in DOMAIN merged : ~BothPresent(merged[k])
          THEN Raise("TypeError")
        ELSE Ok(SelectSeq(flagged, LAMBDA r : r.discrepancy # <<>>))

-----------------------------------------------------------------------------
(* Calls of cross_check_export_documents on bounded inputs *)

MaxExportRows == 2

ExportInvoiceRow(n, g, v) ==
  [c \in ExportInvoiceColumns |->
     CASE c = "invoice_number" -> n [] c = "invoice_date" -> D1
       [] c = "invoice_value" -> v [] c = "gstin_supplier" -> g
       [] c = "export_value" -> v]

ShippingBillRow(n, d, v) ==
  [c \in ShippingBillColumns |->
     CASE c = "shipping_bill_number" -> Str(<<"S","1">>) [] c = "invoice_number" -> n
       [] c = "shipping_date" -> d [] c = "export_value_shipping" -> v]

BrcRow(n, a) ==
  [c \in BrcColumns |->
     CASE c = "brc_number" -> Str(<<"R","1">>) [] c = "invoice_number" -> n
       [] c = "realization_date" -> D2 [] c = "realized_amount" -> a]

\* export invoices A1 and B2, supplier GSTIN well-formed or not, worth 1.00
ExportInvoiceRows ==
  {ExportInvoiceRow(n, g, Num(100)) :
     n \in {Str(<<"A","1">>), Str(<<"B","2">>)}, g \in {Str(G1), Str(lower(G1))}}

\* shipping bills: of A1 in agreement with the invoice, of A1 with another
\* date and value, of B2
ShippingBillRows ==
  {ShippingBillRow(Str(<<"A","1">>), D1, Num(100)),
   ShippingBillRow(Str(<<"A","1">>), D2, Num(101)),
   ShippingBillRow(Str(<<"B","2">>), D1, Num(100))}

\* BRCs: of A1 realized in full, of A1 realized short, of B2
BrcRows ==
  {BrcRow(Str(<<"A","1">>), Num(100)), BrcRow(Str(<<"A","1">>), Num(99)),
   BrcRow(Str(<<"B","2">>), Num(100))}

ExportArgs ==
  {[export_invoice_df |-> e, shipping_bill_df |-> sb, brc_df |-> b] :
     e \in Frames(ExportInvoiceColumns, ExportInvoiceRows, MaxExportRows),
     sb \in Frames(ShippingBillColumns, ShippingBillRows, MaxExportRows),
     b \in Frames(BrcColumns, BrcRows, MaxExportRows - 1)
           \cup {DF(BrcColumns \ {"brc_number"}, <<>>)}}

InitExportDocuments ==
  /\ all_data = <<>>
  /\ report = <<>>
  /\ args \in ExportArgs
  /\ merged_df = <<>>
  /\ result = <<>>
  /\ pc = "call"

CallExportDocuments ==
  /\ pc = "call"
  /\ \E mode \in PandasBuilds :
       result' = cross_check_export_documents(args.export_invoice_df, args.shipping_bill_df,
                                              args.brc_df, mode)
  /\ merged_df' = IF "brc_number" \in args.brc_df.columns
                    THEN ExportMerged(args.export_invoice_df, args.shipping_bill_df, args.brc_df)
                    ELSE <<>>
  /\ pc' = "done"
  /\ UNCHANGED <<all_data, report, args>>

NextExportDocuments == CallExportDocuments

SpecExportDocuments == InitExportDocuments /\ [][NextExportDocuments]_vars

\* the export invoice in row i has no shipping bill
NoShippingBill(i) ==
  \A j \in DOMAIN args.shipping_bill_df.rows :
    args.shipping_bill_df.rows[j]["invoice_number"]
      # args.export_invoice_df.rows[i]["invoice_number"]

\* the export invoice in row i has no BRC
NoBrc(i) ==
  \A j \in DOMAIN args.brc_df.rows :
    args.brc_df.rows[j]["invoice_number"] # args.export_invoice_df.rows[i]["invoice_number"]

\* the call returned a record of export invoice i carrying the reason
ExportRecord(i, text) ==
  /\ result.ok
  /\ \E m \in DOMAIN result.df :
       result.df[m].left = i /\ InSeq(result.df[m].discrepancy, text)

\* C18: cross_check_export_documents loses no export invoice in its two left
\* joins: an invoice with no shipping bill gets a record carrying 'Missing
\* Shipping Bill', an invoice with no BRC a record carrying 'Missing Bank
\* Realization Certificate'.
C18_MissingDocumentsReported ==
  (pc = "done" /\ "export_invoice_df" \in DOMAIN args /\ "brc_number" \in args.brc_df.columns) =>
    \A i \in DOMAIN args.export_invoice_df.rows :
      /\ \E k \in DOMAIN merged_df : merged_df[k].left = i
      /\ NoShippingBill(i) => ExportRecord(i, "Missing Shipping Bill")
      /\ NoBrc(i) => ExportRecord(i, "Missing Bank Realization Certificate")

\* there are invoices, every GSTR-2B row and every purchase record has its
\* counterpart, and each matched pair agrees in date and amount, is eligible
\* and carries a well-formed supplier GSTIN on both sides
PurchaseInputClean ==
  /\ "gstr2b_df" \in DOMAIN args
  /\ merged_df # <<>>
  /\ \A k \in DOMAIN merged_df :
       /\ merged_df[k]._merge = "both"
       /\ safe_string_comparison(merged_df[k].invoice_date_gstr2b,
                                 merged_df[k].invoice_date_purchase, TRUE)
       /\ ItcAmountMatch(merged_df[k].itc_amount, merged_df[k].itc_claimed)
       /\ ~ItcNotEligible(merged_df[k].itc_eligible)
       /\ validate_gstin(args.gstr2b_df.rows[merged_df[k].left]["gstin_supplier"])
       /\ validate_gstin(args.purchase_records_df.rows[merged_df[k].right]["gstin_supplier"])

\* C19: every record cross_check_gstr2b_purchase_records returns has a
\* non-empty discrepancy text, and on matched invoices in which nothing is
\* amiss the call returns, and returns no record.
C19_CleanInputEmptyResult ==
  (pc = "done" /\ "gstr2b_df" \in DOMAIN args) =>
    /\ result.ok => \A m \in DOMAIN result.df : result.df[m].discrepancy # <<>>
    /\ PurchaseInputClean => (result.ok /\ result.df = <<>>)

\* the sums of the two sides differ in the metric k alone, and there by more
\* than the tolerance
OnlyMetricMoved(k) ==
  /\ Abs(ArgDiff[k]) > tolerance
  /\ \A i \in DOMAIN Metrics : Metrics[i] # k => ArgDiff[Metrics[i]] = 0

\* C20: when the sums of the two sides are the same in three of
\* taxable_value, igst, cgst, sgst and differ in the fourth by more than the
\* tolerance 1.0, cross_check_gstr1_gstr3b returns exactly one summary row,
\* whose discrepancy text names that metric and none of the other three.
C20_OneMetricMovedOneRow ==
  (Returned /\ "gstr1_df" \in DOMAIN args) =>
    \A i \in DOMAIN Metrics :
      OnlyMetricMoved(Metrics[i]) =>
        /\ Len(result.df) = 1
        /\ \A j \in DOMAIN Metrics :
             InSeq(result.df[1].discrepancy, Metrics[j]) <=> j = i

\* both sides at 1000.00, 180.00, 0.00, 0.00 but for igst, 1.50 higher in
\* GSTR-1: one row, naming igst
C20_Witness ==
  /\ Returned
  /\ "gstr1_df" \in DOMAIN args
  /\ args.gstr3b_df.rows = <<TotalsRow("igst", 0)>>
  /\ args.gstr1_df.rows = <<TotalsRow("igst", 150)>>
  /\ OnlyMetricMoved("igst")
  /\ Len(result.df) = 1
  /\ InSeq(result.df[1].discrepancy, "igst")

-----------------------------------------------------------------------------
(* Calls of analyze_circular_trading with the gstin_col argument passed *)

SellerColumns == TransactionColumns \cup {"seller_gstin"}

\* transactions carrying a second supplier column, seller_gstin
SellerRows ==
  {[c \in SellerColumns |->
      CASE c = "gstin_supplier" -> s [] c = "gstin_recipient" -> r
        [] c = "seller_gstin" -> x [] c = "invoice_number" -> Str(<<"A","1">>)] :
     s \in TraderIds, r \in TraderIds, x \in TraderIds}

InitCircularColumn ==
  /\ all_data = <<>>
  /\ report = <<>>
  /\ args \in {[transaction_df |-> df, gstin_col |-> c, threshold |-> t] :
                 df \in Frames(SellerColumns, SellerRows, MaxRows),
                 c \in {"gstin_supplier", "seller_gstin"},
                 t \in 1..2}
  /\ merged_df = <<>>
  /\ result = <<>>
  /\ pc = "call"

NextCircularColumn == CallCircular

SpecCircularColumn == InitCircularColumn /\ [][NextCircularColumn]_vars

\* the dataset with the supplier of each transaction taken from column c
SupplierFrom(df, c) ==
  DF(df.columns, [i \in DOMAIN df.rows |-> With(df.rows[i], "gstin_supplier", df.rows[i][c])])

\* C21: analyze_circular_trading called with gstin_col = X reports the cycles
\* of the graph whose suppliers are read from column X, whatever the column
\* gstin_supplier holds.
C21_SupplierReadFromGstinCol ==
  (Returned /\ "gstin_col" \in DOMAIN args /\ args.gstin_col \in args.transaction_df.columns) =>
    result = analyze_circular_trading(SupplierFrom(args.transaction_df, args.gstin_col),
                                      "gstin_supplier", args.threshold)

-----------------------------------------------------------------------------
(* Which DataFrame objects the operations write to *)

\* A name in a function refers to the object the caller passed ("caller") or
\* to an object made inside the function ("local").

\* a name that goes on referring to the object it was given
alias(ref) == ref

\* DataFrame.copy(): a new object, whatever the name referred to
copy(ref) == "local"

Bool(b) == [bool |-> b]

\* the cell a column assignment computes from the cell of its source column
Convert(conv, cell) ==
  CASE conv = "validate_gstin" -> Bool(validate_gstin(cell))
    [] conv = "lower" -> Str(lower(astype_str_any(cell)))
    [] conv = "to_numeric" -> to_numeric(cell)
    [] conv = "to_datetime" -> to_datetime(cell)
    [] conv = "itc" -> Bool(lower(astype_str_any(cell)) \in ItcTrueStrings)

\* df[target] = conv(df[source])
Write(target, source, conv) == [target |-> target, source |-> source, conv |-> conv]

\* one DataFrame name of an operation: the object it refers to when the
\* column assignments run, and the assignments made through it
Name(param, ref, writes) == [param |-> param, ref |-> ref, writes |-> writes]

GstinValidWrites ==
  <<Write("gstin_supplier_valid", "gstin_supplier", "validate_gstin"),
    Write("gstin_recipient_valid", "gstin_recipient", "validate_gstin")>>

\* the names of each operation that are bound to a dataset of the caller
OperationNames(op) ==
  CASE op = "cross_check_invoice_ewaybill" ->
         <<Name("invoice_df", copy("caller"), GstinValidWrites),
           Name("ewaybill_df", copy("caller"), GstinValidWrites)>>
    [] op = "cross_check_gstr1_gstr3b" ->
         <<Name("gstr1_df", "caller", <<>>), Name("gstr3b_df", "caller", <<>>)>>
    [] op = "cross_check_gstr2b_purchase_records" ->
         <<Name("gstr2b_df", copy("caller"), SubSeq(GstinValidWrites, 1, 1)),
           Name("purchase_records_df", copy("caller"), SubSeq(GstinValidWrites, 1, 1))>>
    [] op = "cross_check_export_documents" ->
         <<Name("export_invoice_df", copy("caller"), SubSeq(GstinValidWrites, 1, 1)),
           Name("shipping_bill_df", "caller", <<>>),
           Name("brc_df", "caller", <<>>)>>
    [] op = "analyze_circular_trading" ->
         <<Name("transaction_df", "caller", <<>>)>>
    [] op = "cross_check_gstr2b_annexureb" ->
         <<Name("gstr2b_df", copy("caller"),
                <<Write("ITC Available Bool", "ITC Available", "itc"),
                  Write("Invoice Number_Lower", "Invoice Number", "lower")>>),
           Name("annexureb_df", copy("caller"),
                <<Write("Export Invoice Number Lower", "Export Invoice Number", "lower")>>)>>
    [] op = "cross_check_gstr3b_generaldata" ->
         <<Name("gstr3b_df", copy("caller"),
                <<Write("Total Taxable Value", "Total Taxable Value", "to_numeric")>>),
           Name("gstgen_df", copy("caller"),
                <<Write("Total Amount", "Total Amount", "to_numeric")>>)>>
    [] op = "cross_check_ewaybill_generaldata" ->
         <<Name("ewaybill_df", copy("caller"),
                <<Write("Invoice Number_Lower", "Invoice Number", "lower"),
                  Write("Total Value", "Total Value", "to_numeric")>>),
           Name("gstgen_df", copy("caller"),
                <<Write("Invoice Number_Lower", "Invoice Number", "lower"),
                  Write("Total Amount", "Total Amount", "to_numeric")>>)>>
    [] op = "check_data" ->
         <<Name("df", copy(alias("caller")),
                <<Write("parsed_date", "Invoice Date", "to_datetime"),
                  Write("Total Amount", "Total Amount", "to_numeric"),
                  Write("Tax Amount", "Tax Amount", "to_numeric"),
                  Write("Total Value", "Total Value", "to_numeric"),
                  Write("ITC Available", "ITC Available", "itc")>>)>>
    [] op = "check_cross_document_consistency" ->
         <<Name("gstr2b_df", copy(copy("caller")),
                <<Write("ITC Available Bool", "ITC Available", "itc"),
                  Write("Invoice Number_Lower", "Invoice Number", "lower")>>),
           Name("gstr3b_df", copy(copy("caller")),
                <<Write("Total Taxable Value", "Total Taxable Value", "to_numeric")>>),
           Name("gstgen_df", copy(copy("caller")),
                <<Write("Invoice Number_Lower", "Invoice Number", "lower"),
                  Write("Total Amount", "Total Amount", "to_numeric")>>)>>

Operations ==
  {"cross_check_invoice_ewaybill", "cross_check_gstr1_gstr3b",
   "cross_check_gstr2b_purchase_records", "cross_check_export_documents",
   "analyze_circular_trading", "cross_check_gstr2b_annexureb",
   "cross_check_gstr3b_generaldata", "cross_check_ewaybill_generaldata",
   "check_data", "check_cross_document_consistency"}

RECURSIVE Written(_, _)
\* the frame after the column assignments ws, in order; an assignment whose
\* source column is absent does not happen
Written(df, ws) ==
  IF ws = <<>> THEN df
  ELSE LET w == Head(ws)
           next == IF w.source \in df.columns
                     THEN DF(df.columns \cup {w.target},
                             [i \in DOMAIN df.rows |->
                                With(df.rows[i], w.target, Convert(w.conv, df.rows[i][w.source]))])
                     ELSE df
       IN  Written(next, Tail(ws))

\* the caller's dataset after the call: written when the name still referred
\* to it, as it was otherwise
AfterCall(df, name) == IF name.ref = "caller" THEN Written(df, name.writes) ELSE df

SourceColumns ==
  {"gstin_supplier", "gstin_recipient", "ITC Available", "Invoice Number",
   "Export Invoice Number", "Total Amount", "Total Taxable Value", "Total Value",
   "Invoice Date", "Tax Amount"}

\* datasets of no row or of one row holding the same cell in every column
OneCellFrames ==
  {DF(SourceColumns, <<>>)}
  \cup {DF(SourceColumns, <<[c \in SourceColumns |-> v]>>) :
          v \in {Str(<<"1">>), Str(<<"Y","e","s">>), Str(G1), D1, Num(100), NaN}}

InitOperation ==
  /\ all_data = <<>>
  /\ report = <<>>
  /\ \E op \in Operations :
       args \in {[operation |-> op, frames |-> f] :
                   f \in [DOMAIN OperationNames(op) -> OneCellFrames]}
  /\ merged_df = <<>>
  /\ result = <<>>
  /\ pc = "call"

\* result holds the caller's datasets as the call leaves them
CallOperation ==
  /\ pc = "call"
  /\ result' = [i \in DOMAIN args.frames |->
                  AfterCall(args.frames[i], OperationNames(args.operation)[i])]
  /\ pc' = "done"
  /\ UNCHANGED <<all_data, report, args, merged_df>>

NextOperation == CallOperation

SpecOperation == InitOperation /\ [][NextOperation]_vars

\* C22: after a call of any reconciler, of the detector, of check_data or of
\* check_cross_document_consistency, every dataset passed in has the columns,
\* rows and values it had before the call.
C22_InputsNotMutated ==
  (pc = "done" /\ "operation" \in DOMAIN args) => result = args.frames

\* cross_check_gstr3b_generaldata was called on totals written as text, which
\* its pd.to_numeric assignments turn into numbers in its own copies; the
\* datasets of the caller still hold the text
C22_Witness ==
  /\ pc = "done"
  /\ "operation" \in DOMAIN args
  /\ args.operation = "cross_check_gstr3b_generaldata"
  /\ \A i \in DOMAIN args.frames :
       /\ args.frames[i].rows # <<>>
       /\ args.frames[i].rows[1]["Total Amount"] = Str(<<"1">>)
       /\ Written(args.frames[i], OperationNames(args.operation)[i].writes) # args.frames[i]
       /\ result[i] = args.frames[i]

-----------------------------------------------------------------------------
(* Amount comparison of cross_check_invoice_ewaybill *)

\* two amounts, in hundredths, that differ by 0.01 at most
WithinCent(a, b) == ~isna(a) /\ ~isna(b) /\ Abs(a.num - b.num) <= 1

\* C23: on a matched pair of cross_check_invoice_ewaybill whose two invoice
\* values differ by 0.01 at most, the pair receives no 'Invoice Value
\* Mismatch' reason.
C23_CentApartIsEqual ==
  (Returned /\ "invoice_df" \in DOMAIN args) =>
    \A k \in DOMAIN merged_df :
      WithinCent(args.invoice_df.rows[merged_df[k].left]["invoice_value"],
                 args.ewaybill_df.rows[merged_df[k].right]["invoice_value"])
        => ~InSeq(ReturnedText(k), "Invoice Value Mismatch")

-----------------------------------------------------------------------------
(* The report entry of a check that found nothing *)

\* C24: after check_data(k) has run to completion on loaded rows and found
\* no error, the report holds an entry for k, and the entry of a data type
\* checked for the first time that way has an empty error list.
C24_CleanRunHasEntry ==
  [][(pc = "menu" /\ pc' = "menu" /\ "call" \in DOMAIN args' /\ args'.call = "check_data"
        /\ all_data[DataKey(args'.data_type_short)].rows # <<>> /\ result' = <<>>)
       => /\ DataKey(args'.data_type_short) \in DOMAIN report'
          /\ (DataKey(args'.data_type_short) \notin DOMAIN report
                => report'[DataKey(args'.data_type_short)] = <<>>)]_vars

-----------------------------------------------------------------------------
(* _check_gstr3b_data, rule by rule *)

tax_period_col == "Tax Period"

taxable_val_col == "Total Taxable Value"

igst_paid_col == "IGST Paid"

cgst_paid_col == "CGST Paid"

sgst_paid_col == "SGST Paid"

itc_claimed_col == "ITC Claimed"

optional_columns ==
  <<taxable_val_col, igst_paid_col, cgst_paid_col, sgst_paid_col, itc_claimed_col>>

\* Series.astype(str).str.match(r"^\d{4}-(0[1-9]|1[0-2])$"), up to the end or
\* up to one trailing newline
TaxPeriodMatches(s) ==
  LET n == IF s # <<>> /\ s[Len(s)] = "\n" THEN Len(s) - 1 ELSE Len(s)
  IN  /\ n = 7
      /\ \A i \in 1..4 : s[i] \in Digits
      /\ s[5] = "-"
      /\ \/ s[6] = "0" /\ s[7] \in Digits \ {"0"}
         \/ s[6] = "1" /\ s[7] \in {"0", "1", "2"}

\* an error of the amount rules, which name several columns
AmountError(index, columns, values, description) ==
  [row |-> index + 2, columns |-> columns, values |-> values, description |-> description]

\* _check_gstr3b_data past _check_columns: the errors it adds, in order, and
\* how it ends.  The anomaly rule is entered when the three paid columns are
\* present and reads df[itc_claimed_col] without asking whether it is there.
Gstr3bCheck(data) ==
  LET rows == data.rows
      present_amount_cols == SelectSeq(optional_columns, LAMBDA c : c \in data.columns)
      amount == [i \in DOMAIN rows |->
                   [k \in DOMAIN present_amount_cols |-> to_numeric(rows[i][present_amount_cols[k]])]]
      invalid_numeric == [i \in DOMAIN rows |-> \E k \in DOMAIN amount[i] : isna(amount[i][k])]
      negative_amount == [i \in DOMAIN rows |->
                            ~invalid_numeric[i] /\ \E k \in DOMAIN amount[i] : amount[i][k].num < 0]
      invalid_tax_period == [i \in DOMAIN rows |->
                               ~TaxPeriodMatches(astype_str_any(rows[i][tax_period_col]))]
      paid == {igst_paid_col, cgst_paid_col, sgst_paid_col}
      total_taxes_paid == [i \in DOMAIN rows |->
                             LET v(c) == IF isna(to_numeric(rows[i][c])) THEN 0
                                         ELSE to_numeric(rows[i][c]).num
                             IN  v(igst_paid_col) + v(cgst_paid_col) + v(sgst_paid_col)]
      anomaly == [i \in DOMAIN rows |->
                    /\ ~invalid_numeric[i]
                    /\ to_numeric(rows[i][itc_claimed_col]).num * 10 > total_taxes_paid[i] * 12]
      hits(mask) == SelectSeq([i \in DOMAIN rows |-> i], LAMBDA i : mask[i])
      amount_errors(mask, description) ==
        [k \in DOMAIN hits(mask) |->
           AmountError(hits(mask)[k] - 1, present_amount_cols, amount[hits(mask)[k]], description)]
      first == GstinErrors(data, gstin_col, "Invalid GSTIN format")
               \o RuleErrors(rows, tax_period_col,
                             "Invalid Tax Period format (expected YYYY-MM)", invalid_tax_period)
               \o (IF present_amount_cols = <<>> THEN <<>>
                   ELSE amount_errors(invalid_numeric, "Non-numeric data found")
                        \o amount_errors(negative_amount, "Negative amount found"))
  IN  IF ~(paid \subseteq data.columns) THEN [ok |-> TRUE, errors |-> first]
      ELSE IF itc_claimed_col \notin data.columns THEN [ok |-> FALSE, exc |-> "KeyError", errors |-> first]
      ELSE [ok |-> TRUE,
            errors |-> first \o
              [k \in DOMAIN hits(anomaly) |->
                 AmountError(hits(anomaly)[k] - 1,
                             <<itc_claimed_col, igst_paid_col, cgst_paid_col, sgst_paid_col>>,
                             <<to_numeric(rows[hits(anomaly)[k]][itc_claimed_col]),
                               Num(total_taxes_paid[hits(anomaly)[k]])>>,
                             "ITC claimed significantly higher than total taxes paid")]]

\* check_data("gstr3b") from the menu of run(): neither catches an exception
\* of the check, and the errors added before it stay in the report
check_data_gstr3b ==
  LET key == "gstr3b_data"
      data == all_data[key]
      missing == MissingColumnErrors(data, <<gstin_col, tax_period_col>>)
      out == IF data.rows = <<>> THEN [ok |-> TRUE, errors |-> <<>>]
             ELSE IF missing # <<>> THEN [ok |-> TRUE, errors |-> missing]
             ELSE Gstr3bCheck(data)
  IN  /\ pc = "menu"
      /\ key \in DOMAIN all_data
      /\ Len(ReportErrors(key)) <= MaxErrors
      /\ report' = IF out.errors = <<>> THEN report
                   ELSE SetReport(report, key, ReportErrors(key) \o out.errors)
      /\ args' = [call |-> "check_data", data_type_short |-> "gstr3b"]
      /\ result' = out
      /\ pc' = IF out.ok THEN "menu" ELSE "raised"
      /\ UNCHANGED <<all_data, merged_df>>

Period(s) == Str(<<"2","0","2","4","-">> \o s)

\* a GSTR-3B row over cols: period p, every amount a but the claimed ITC c
Gstr3bRow(cols, p, a, c) ==
  [x \in cols |->
     CASE x = gstin_col -> Str(G1)
       [] x = tax_period_col -> p
       [] x = itc_claimed_col -> c
       [] OTHER -> a]

Gstr3bFileRows(cols) ==
  {Gstr3bRow(cols, Period(<<"0","1">>), Num(100), c) : c \in {Num(100), Num(500)}}
  \cup {Gstr3bRow(cols, Period(<<"1","3">>), Num(100), Num(100)),
        Gstr3bRow(cols, Period(<<"0","1">>), Str(<<"x">>), Num(100)),
        Gstr3bRow(cols, Period(<<"0","1">>), Num(-100), Num(100))}

\* the required columns and any of the optional ones
Gstr3bColumnSets ==
  {{gstin_col, tax_period_col} \cup opt :
     opt \in SUBSET {optional_columns[i] : i \in DOMAIN optional_columns}}

LoadGstr3bFile ==
  /\ DOMAIN all_data = {}
  /\ \E cols \in Gstr3bColumnSets : \E df \in Frames(cols, Gstr3bFileRows(cols), MaxRows) :
       LoadData("gstr3b_data", df)

NextGstr3bCheck ==
  \/ LoadGstr3bFile
  \/ EnterMenu
  \/ check_data_gstr3b

SpecGstr3bCheck == InitVerifier /\ [][NextGstr3bCheck]_vars

\* the optional columns the loaded GSTR-3B file lacks
AbsentOptional ==
  {optional_columns[i] : i \in DOMAIN optional_columns} \ all_data["gstr3b_data"].columns

\* C25: a GSTR-3B check run on rows whose file has the required columns and
\* lacks some of the optional ones completes normally, and every error it
\* adds names present columns only.
C25_AbsentOptionalColumnHarmless ==
  ("call" \in DOMAIN args /\ "gstr3b_data" \in DOMAIN all_data
     /\ all_data["gstr3b_data"].rows # <<>> /\ AbsentOptional # {}) =>
    /\ result.ok
    /\ pc = "menu"
    /\ \A i \in DOMAIN result.errors :
         "columns" \in DOMAIN result.errors[i] =>
           \A k \in DOMAIN result.errors[i].columns :
             result.errors[i].columns[k] \notin AbsentOptional

-----------------------------------------------------------------------------
(* Calls of cross_check_ewaybill_generaldata on bounded inputs *)

EwayGenRow(cols, n, v) == [c \in cols |-> IF c = inv_num_col THEN n ELSE v]

\* one e-way bill against one general invoice of the same number up to case,
\* totals around 1.00 and around 2000.00, or not numbers
SingleEwayGenArgs ==
  {[ewaybill_df |-> DF({inv_num_col, eway_total_val_col},
                       <<EwayGenRow({inv_num_col, eway_total_val_col}, Str(<<"A","1">>), a)>>),
    gstgen_df |-> DF({inv_num_col, tot_amt_col},
                     <<EwayGenRow({inv_num_col, tot_amt_col}, Str(<<"a","1">>), b)>>)] :
     a \in {Num(100), Num(101), Num(102), Num(200000), Num(200002), Num(200004), Str(<<"x">>), NaN},
     b \in {Num(100), Num(200000), Str(<<"1",".","0","2">>)}}

\* several rows a side, numbers repeated up to case, totals numeric or not
RepeatedEwaybillRows ==
  {EwayGenRow({inv_num_col, eway_total_val_col}, n, v) :
     n \in {Str(<<"A","1">>), Str(<<"a","1">>)}, v \in {Num(100), Num(102), Str(<<"x">>)}}

RepeatedGeneralRows ==
  {EwayGenRow({inv_num_col, tot_amt_col}, n, v) :
     n \in {Str(<<"a","1">>), Str(<<"B","2">>)}, v \in {Num(100), NaN}}

EwayGenArgs ==
  SingleEwayGenArgs
  \cup {[ewaybill_df |-> a, gstgen_df |-> b] :
          a \in Frames({inv_num_col, eway_total_val_col}, RepeatedEwaybillRows, MaxRows),
          b \in Frames({inv_num_col, tot_amt_col}, RepeatedGeneralRows, MaxRows)}

InitEwayGen ==
  /\ all_data = <<>>
  /\ report = <<>>
  /\ args \in EwayGenArgs
  /\ merged_df = <<>>
  /\ result = <<>>
  /\ pc = "call"

\* the call with the default column names of the signature
CallEwayGen ==
  /\ pc = "call"
  /\ result' = cross_check_ewaybill_generaldata(args.ewaybill_df, args.gstgen_df,
                                                inv_num_col, eway_total_val_col,
                                                inv_num_col, tot_amt_col)
  /\ pc' = "done"
  /\ UNCHANGED <<all_data, report, args, merged_df>>

NextEwayGen == CallEwayGen

SpecEwayGen == InitEwayGen /\ [][NextEwayGen]_vars

\* the lower-cased invoice number of a row
LowerNumber(row) == lower(astype_str(row[inv_num_col]))

\* the first row of rows with lower-cased number n and a numeric cell in
\* val_col; 0 when there is none
FirstNumeric(rows, val_col, n) ==
  LET hit == {i \in DOMAIN rows : LowerNumber(rows[i]) = n /\ ~isna(to_numeric(rows[i][val_col]))}
  IN  IF hit = {} THEN 0 ELSE CHOOSE i \in hit : \A j \in hit : i <= j

EwayGenCalled == pc = "done" /\ "gstgen_df" \in DOMAIN args /\ "ewaybill_df" \in DOMAIN args

\* the lower-cased numbers with a numeric total on both sides
ComparedNumbers ==
  {n \in {LowerNumber(args.ewaybill_df.rows[i]) : i \in DOMAIN args.ewaybill_df.rows} :
     /\ FirstNumeric(args.ewaybill_df.rows, eway_total_val_col, n) # 0
     /\ FirstNumeric(args.gstgen_df.rows, tot_amt_col, n) # 0}

EwayTotalOf(n) ==
  to_numeric(args.ewaybill_df.rows[FirstNumeric(args.ewaybill_df.rows, eway_total_val_col, n)]
               [eway_total_val_col])

GeneralTotalOf(n) ==
  to_numeric(args.gstgen_df.rows[FirstNumeric(args.gstgen_df.rows, tot_amt_col, n)][tot_amt_col])

\* the returned records of lower-cased number n
RecordsOf(n) == {m \in DOMAIN result.df : result.df[m][LowerCol(inv_num_col)] = Str(n)}

\* C26: an invoice matched by cross_check_ewaybill_generaldata is returned
\* with its mismatch text exactly when its e-way bill total and its general
\* total differ by more than 0.01, whatever their magnitude.
C26_FlaggedIffOverCent ==
  (EwayGenCalled /\ result.ok) =>
    \A n \in ComparedNumbers :
      RecordsOf(n) # {} <=> Abs(EwayTotalOf(n).num - GeneralTotalOf(n).num) > 1

\* C28: cross_check_ewaybill_generaldata returns at most one record for a
\* lower-cased invoice number and never more records than the smaller
\* dataset has rows; the record of a number holds the totals of the first
\* row with a numeric total on each side.
C28_OneRecordPerNumber ==
  (EwayGenCalled /\ result.ok) =>
    /\ \A m1, m2 \in DOMAIN result.df :
         result.df[m1][LowerCol(inv_num_col)] = result.df[m2][LowerCol(inv_num_col)] => m1 = m2
    /\ Len(result.df) <= Len(args.ewaybill_df.rows)
    /\ Len(result.df) <= Len(args.gstgen_df.rows)
    /\ \A m \in DOMAIN result.df :
         LET n == result.df[m][LowerCol(inv_num_col)].str
         IN  /\ n \in ComparedNumbers
             /\ result.df[m][eway_total_val_col] = EwayTotalOf(n)
             /\ result.df[m][tot_amt_col] = GeneralTotalOf(n)

\* the number a1 is on two e-way bills, the first without a numeric total,
\* and on two general invoices; one record is returned, with the total of
\* the second e-way bill
C28_Witness ==
  /\ EwayGenCalled
  /\ result.ok
  /\ Len(args.ewaybill_df.rows) = 2
  /\ Len(args.gstgen_df.rows) = 2
  /\ \A i \in 1..2 : LowerNumber(args.ewaybill_df.rows[i]) = <<"a","1">>
  /\ \A i \in 1..2 : LowerNumber(args.gstgen_df.rows[i]) = <<"a","1">>
  /\ args.ewaybill_df.rows[1][inv_num_col] # args.ewaybill_df.rows[2][inv_num_col]
  /\ FirstNumeric(args.ewaybill_df.rows, eway_total_val_col, <<"a","1">>) = 2
  /\ Len(result.df) = 1
  /\ result.df[1][eway_total_val_col] = Num(102)

-----------------------------------------------------------------------------
(* Export invoices with a shipping bill and no BRC *)

\* C27: a call of cross_check_export_documents gives every export invoice
\* that has a shipping bill and no BRC records whose only reason is 'Missing
\* Bank Realization Certificate', whatever its dates and export values.
C27_OnlyMissingBrc ==
  (pc = "done" /\ "export_invoice_df" \in DOMAIN args /\ "brc_number" \in args.brc_df.columns) =>
    \A i \in DOMAIN args.export_invoice_df.rows :
      (~NoShippingBill(i) /\ NoBrc(i)) =>
        /\ result.ok
        /\ \E m \in DOMAIN result.df : result.df[m].left = i
        /\ \A m \in DOMAIN result.df :
             result.df[m].left = i =>
               result.df[m].discrepancy = <<"Missing Bank Realization Certificate">>

-----------------------------------------------------------------------------
(* Sessions mixing per-document checks and the cross-document pass *)

\* run(): files are loaded, then the menu offers the per-document checks of
\* the loaded data and the cross-document pass, in any order
NextSession ==
  \/ \E df \in CrossGenFrames : LoadData("gst_gen_data", df)
  \/ \E df \in CrossEwaybillFrames : LoadData("ewaybill_data", df)
  \/ EnterMenu
  \/ check_cross_document_consistency
  \/ \E k \in {"gst_gen", "ewaybill"} : check_data(k, to_datetime(D1))

SpecSession == InitVerifier /\ [][NextSession]_vars

RECURSIVE PassFindings(_, _)
\* the findings of a cross-document pass whose pair checks ended as outcomes,
\* the first being pair check n
PassFindings(outcomes, n) ==
  IF outcomes = <<>> THEN <<>>
  ELSE (IF ~Head(outcomes).ok THEN <<>>
        ELSE CASE n = 1 -> Check1Errors(Head(outcomes).df)
               [] n = 2 -> Check2Errors(Head(outcomes).df)
               [] n = 3 -> Check3Errors(Head(outcomes).df))
       \o PassFindings(Tail(outcomes), n + 1)

\* C29: a call of check_cross_document_consistency leaves in
\* report['cross_document_consistency'] the findings of that call only and
\* changes no other entry of the report; a check_data call leaves
\* report['cross_document_consistency'] as it was.
C29_CrossEntryReplaced ==
  [][/\ check_cross_document_consistency =>
          /\ report'["cross_document_consistency"] = PassFindings(result', 1)
          /\ DOMAIN report' = DOMAIN report \cup {"cross_document_consistency"}
          /\ \A k \in DOMAIN report : k # "cross_document_consistency" => report'[k] = report[k]
     /\ (\E k \in DataTypes : check_data(k, to_datetime(D1))) =>
          /\ ("cross_document_consistency" \in DOMAIN report') =
               ("cross_document_consistency" \in DOMAIN report)
          /\ "cross_document_consistency" \in DOMAIN report =>
               report'["cross_document_consistency"] = report["cross_document_consistency"]]_vars

\* the cross-document pass has just run on data with one total mismatch,
\* after a per-document check had made its own entry: the entry of the pass
\* holds the one finding
C29_Witness ==
  /\ pc = "menu"
  /\ "cross_document_consistency" \in DOMAIN report
  /\ "gst_gen_data" \in DOMAIN report
  /\ Len(result) = 3
  /\ \A i \in 1..3 : "ok" \in DOMAIN result[i]
  /\ Len(report["cross_document_consistency"]) = 1
  /\ report["cross_document_consistency"] = PassFindings(result, 1)
  /\ "call" \in DOMAIN args

-----------------------------------------------------------------------------
(* The row-level rules of _check_general_data on bounded inputs *)

GeneralColumns == {gstin_col, inv_num_col, inv_date_col, tot_amt_col, tax_amt_col, "GST Rate"}

\* rows with a well-formed GSTIN and invoice number and a rate of 18.00: the
\* date is today's, tomorrow's or none; the total 1.00, -1.00 or no number;
\* the tax 0.18, 0.50 or no number
GeneralRows ==
  {[c \in GeneralColumns |->
      CASE c = gstin_col -> Str(G1)
        [] c = inv_num_col -> Str(<<"A","1">>)
        [] c = inv_date_col -> d
        [] c = tot_amt_col -> t
        [] c = tax_amt_col -> x
        [] c = "GST Rate" -> Num(1800)] :
     d \in {D1, D2, Str(<<"0","5","/","0","1">>)},
     t \in {Num(100), Num(-100), Str(<<"x">>)},
     x \in {Num(18), Num(50), Str(<<"x">>)}}

GeneralArgs ==
  {[data |-> df, today |-> to_datetime(D1), gst_rate |-> g] :
     df \in Frames(GeneralColumns, GeneralRows, MaxRows),
     g \in {NoRate, FixedRate(1800), RateColumn("GST Rate")}}

InitGeneralData ==
  /\ all_data = <<>>
  /\ report = <<>>
  /\ args \in GeneralArgs
  /\ merged_df = <<>>
  /\ result = <<>>
  /\ pc = "call"

\* _check_general_data on data holding every required column
CallGeneralData ==
  /\ pc = "call"
  /\ result' = GeneralDataErrors(args.data, args.today, args.gst_rate)
  /\ pc' = "done"
  /\ UNCHANGED <<all_data, report, args, merged_df>>

NextGeneralData == CallGeneralData

SpecGeneralData == InitGeneralData /\ [][NextGeneralData]_vars

\* the check reported description for the row of label row
Reported(row, description) ==
  \E e \in DOMAIN result : result[e].row = row /\ result[e].description = description

\* C30: for every row, _check_general_data reports at most one of 'Invalid
\* date format' and 'Future invoice date', at most one of 'Invalid numeric
\* format' and 'Negative total amount', and no tax inconsistency when the
\* total amount or the tax amount of the row is no number.
C30_FindingsExclusive ==
  (pc = "done" /\ "gst_rate" \in DOMAIN args) =>
    \A i \in DOMAIN args.data.rows :
      /\ ~(/\ Reported(i + 1, "Invalid date format (expected %Y-%m-%d)")
           /\ Reported(i + 1, "Future invoice date"))
      /\ ~(/\ Reported(i + 1, "Invalid numeric format")
           /\ Reported(i + 1, "Negative total amount"))
      /\ (\/ isna(to_numeric(args.data.rows[i][tot_amt_col]))
          \/ isna(to_numeric(args.data.rows[i][tax_amt_col])))
           => ~Reported(i + 1, "Tax amount inconsistent with total amount")

\* two rows were checked under a fixed rate: the first, dated tomorrow, with
\* a negative total and a tax off the expected one, carries the three
\* findings of well-formed cells; the second, with no date and no numeric
\* total, carries the two of ill-formed cells and no tax finding
C30_Witness ==
  /\ pc = "done"
  /\ "gst_rate" \in DOMAIN args
  /\ args.gst_rate = FixedRate(1800)
  /\ Len(args.data.rows) = 2
  /\ Reported(2, "Future invoice date")
  /\ Reported(2, "Negative total amount")
  /\ Reported(2, "Tax amount inconsistent with total amount")
  /\ Reported(3, "Invalid date format (expected %Y-%m-%d)")
  /\ Reported(3, "Invalid numeric format")
  /\ args.data.rows[2][tax_amt_col] = Num(50)
  /\ ~Reported(3, "Tax amount inconsistent with total amount")

====
